---- MODULE Spec2Model ----
(***************************************************************************)
(* Wiremit send-money front end: fee / exchange-rate calculation, amount   *)
(* parsing, transaction-limit validation, the exchange-rate provider and   *)
(* the send-money form with the application store.                         *)
(*                                                                         *)
(* JavaScript numbers are modelled as exact rationals [n |-> numerator,    *)
(* d |-> denominator] in lowest terms with d > 0; NaN is the value with    *)
(* d = 0.  IEEE-754 rounding of the binary representation is not           *)
(* modelled: every arithmetic operator below is exact.                     *)
(* Strings that the code inspects character by character (the amount the   *)
(* user types) are sequences of one-character strings.                     *)
(***************************************************************************)
EXTENDS Integers, Sequences, FiniteSets, TLC

(***************************************************************************)
(* Bounds of the model.                                                    *)
(***************************************************************************)
\* amounts 0.001 .. MaxMills/1000 are fed to calculateFee
MaxMills == 60
\* amounts and fees 0.00 .. MaxCents/100 are fed to calculateFinalAmount
MaxCents == 6
\* longest raw amount string fed to parseAmount
MaxLen == 4
\* the clock runs from minute 0 to minute MaxClock
MaxClock == 6
\* exchange-rate fetches that may await their response at the same time
MaxInFlight == 2
\* transactions created through the form
MaxTx == 1
\* calculation timeouts pending at the same time
MaxTimers == 2
\* entries generateMockTransactions produces
MaxMock == 1
\* longest store list handed to validateForm
MaxStored == 2
\* the minutes that pass while logins are attempted
MaxMinutes == 15

\* the mock transactions of the transaction history view (the code makes 15)
MaxHistory == 1
(***************************************************************************)
(* State.                                                                  *)
(***************************************************************************)
VARIABLES
    \* one application of a calculation function: its arguments, whether it
    \* has been applied, and the value it returned
    args, called, ret,
    \* the value a call made afterwards with other arguments returned, and the
    \* second application to args: whether it was made and what it returned
    retOther, calledAgain, retAgain,
    \* Date.now() in minutes
    clock,
    \* APIService.cache: empty, or the one entry of the exchange-rate request
    cache,
    \* the number of exchange-rate fetches awaiting their HTTP response
    inFlight,
    \* the APIResponse the last completed getExchangeRates call returned
    ratesResponse,
    \* store: exchangeRates and ratesLastUpdated
    exchangeRates, ratesLastUpdated,
    \* the calendar day of new Date(): [y, m, d]
    today,
    \* browser storage: the auth-token cookie, wiremit_current_user and
    \* wiremit_transactions
    authToken, currentUser, lsTransactions,
    \* whether the effect of Index has run
    appLoaded,
    \* store: auth (user, isAuthenticated, isLoading and the two tokens)
    auth,
    \* store: transactions
    transactions,
    \* SendMoneySection: formData, errors, and the arguments validateForm
    \* last handed to validateTransactionAmount
    formData, errors, limitArgs,
    \* SendMoneySection: calculatedValues, showCalculation, isSubmitting
    calculatedValues, showCalculation, isSubmitting,
    \* the 800 ms timeouts of calculateTransaction, oldest first, each with the
    \* values its callback closed over
    calcTimers,
    \* createTransaction calls (2 s) and getTransactions calls (500 ms) that
    \* have not returned yet, oldest first
    pendingCreate, pendingLoads,
    \* the 3 s and 8 s timeouts of createTransaction, oldest first
    processingTimers, completedTimers,
    \* the number of ids generateId has handed out, plus one
    nextId,
    \* browser storage: wiremit_users, rate_limit_login and the refresh-token
    \* cookie
    lsUsers, rateLimit, refreshCookie,
    \* what the last call of checkRateLimit returned, and the instants of the
    \* login submissions it allowed, oldest first (the last MaxAllowed of them)
    lastRateLimit, allowedAt,
    \* the user of the login that set the auth-token cookie, null without one
    lastLogin,
    \* the mounted AuthPage: its mode and errors.general of its form
    authPage,
    \* the 1 s timeouts of login, register, handleLogout and
    \* handleProfileUpdate, oldest first
    oneSecondTimers,
    \* TransactionHistory: mockTransactions, empty until loadMockTransactions
    \* has set them
    mockTransactions,
    \* the APIResponse the last register call made past the form returned
    registerResponse

calcVars == <<args, called, ret, retOther, calledAgain, retAgain>>

ratesVars == <<clock, cache, inFlight, ratesResponse, exchangeRates, ratesLastUpdated>>

storageVars == <<authToken, currentUser, lsTransactions>>

sessionVars == <<today, appLoaded, auth, transactions>>

validationVars == <<formData, errors, limitArgs>>

formVars == <<calculatedValues, showCalculation, isSubmitting, calcTimers>>

apiVars == <<pendingCreate, pendingLoads, processingTimers, completedTimers, nextId>>

accountVars == <<lsUsers, rateLimit, refreshCookie, lastRateLimit, allowedAt, lastLogin,
                 authPage, oneSecondTimers>>

vars == <<calcVars, ratesVars, storageVars, sessionVars, validationVars, formVars, apiVars,
          accountVars, mockTransactions, registerResponse>>
(***************************************************************************)
(* Exact arithmetic on JavaScript numbers.                                 *)
(***************************************************************************)
Abs(i) == IF i < 0 THEN -i ELSE i

RECURSIVE GCD(_, _)
GCD(a, b) == IF b = 0 THEN a ELSE GCD(b, a % b)

\* the number n/d (d > 0) in lowest terms
Dec(n, d) == LET g == GCD(Abs(n), d) IN [n |-> n \div g, d |-> d \div g]

Num(i) == [n |-> i, d |-> 1]

NaN == [n |-> 0, d |-> 0]

isNaN(x) == x.d = 0

\* x * y
Times(x, y) ==
    LET g1 == GCD(Abs(x.n), y.d)
        g2 == GCD(Abs(y.n), x.d)
    IN  IF x.n = 0 \/ y.n = 0 THEN Num(0)
        ELSE [n |-> (x.n \div g1) * (y.n \div g2), d |-> (x.d \div g2) * (y.d \div g1)]

\* x / y for y > 0
Over(x, y) == Times(x, [n |-> y.d, d |-> y.n])

\* x + y
Plus(x, y) ==
    LET g == GCD(x.d, y.d)
    IN  Dec(x.n * (y.d \div g) + y.n * (x.d \div g), x.d * (y.d \div g))

\* x - y
Minus(x, y) == Plus(x, [n |-> -(y.n), d |-> y.d])

\* x < y
Lt(x, y) ==
    LET g == GCD(x.d, y.d)
    IN  x.n * (y.d \div g) < y.n * (x.d \div g)

\* x > y
Gt(x, y) == Lt(y, x)

\* x <= y
Le(x, y) == ~Lt(y, x)

\* Math.ceil(x): the least integer >= x
MathCeil(x) == Num(-((-(x.n)) \div x.d))

(***************************************************************************)
(* lib/constants.ts                                                        *)
(***************************************************************************)
CurrencyCodes == {"USD", "GBP", "ZAR", "USDT"}

CURRENCIES ==
    [c \in CurrencyCodes |->
        CASE c = "USD"  -> [symbol |-> "$"]
          [] c = "GBP"  -> [symbol |-> "£"]
          [] c = "ZAR"  -> [symbol |-> "R"]
          [] c = "USDT" -> [symbol |-> "₮"]]

Destinations == {"UK", "South Africa"}

COUNTRIES ==
    [c \in Destinations |->
        IF c = "UK" THEN [currency |-> "GBP", feePercentage |-> 10]
                    ELSE [currency |-> "ZAR", feePercentage |-> 20]]

Tiers == {"basic", "premium", "enterprise"}

\* a plausible slip: the per-transaction bounds of one tier are exchanged
TRANSACTION_LIMITS_swapped ==
    [t \in Tiers |->
        CASE t = "basic" ->
               [daily |-> Num(1000), monthly |-> Num(10000),
                perTransaction |-> [min |-> Num(1), max |-> Num(500)]]
          [] t = "premium" ->
               [daily |-> Num(5000), monthly |-> Num(50000),
                perTransaction |-> [min |-> Num(2000), max |-> Num(1)]]
          [] t = "enterprise" ->
               [daily |-> Num(20000), monthly |-> Num(200000),
                perTransaction |-> [min |-> Num(1), max |-> Num(10000)]]]

TRANSACTION_LIMITS ==
    [t \in Tiers |->
        CASE t = "basic" ->
               [daily |-> Num(1000), monthly |-> Num(10000),
                perTransaction |-> [min |-> Num(1), max |-> Num(500)]]
          [] t = "premium" ->
               [daily |-> Num(5000), monthly |-> Num(50000),
                perTransaction |-> [min |-> Num(1), max |-> Num(2000)]]
          [] t = "enterprise" ->
               [daily |-> Num(20000), monthly |-> Num(200000),
                perTransaction |-> [min |-> Num(1), max |-> Num(10000)]]]

(***************************************************************************)
(* lib/utils/financial.ts: fee and final amount                            *)
(***************************************************************************)
\* a plausible slip: Math.floor in place of Math.ceil
MathFloor(x) == Num(x.n \div x.d)

calculateFee_floor(amount, destinationCountry) ==
    LET feePercentage == IF destinationCountry = "UK" THEN 10 ELSE 20
    IN  Over(MathFloor(Times(Over(Times(amount, Num(feePercentage)), Num(100)), Num(100))),
             Num(100))

calculateFee(amount, destinationCountry) ==
    LET feePercentage == IF destinationCountry = "UK" THEN 10 ELSE 20
    IN  Over(MathCeil(Times(Over(Times(amount, Num(feePercentage)), Num(100)), Num(100))),
             Num(100))

\* a plausible slip: the fee is added instead of subtracted
calculateFinalAmount_plusFee(sourceAmount, exchangeRate, fee) ==
    LET amountAfterFee == Plus(sourceAmount, fee)
    IN  Over(MathCeil(Times(Times(amountAfterFee, exchangeRate), Num(100))), Num(100))

calculateFinalAmount(sourceAmount, exchangeRate, fee) ==
    LET amountAfterFee == Minus(sourceAmount, fee)
    IN  Over(MathCeil(Times(Times(amountAfterFee, exchangeRate), Num(100))), Num(100))

(***************************************************************************)
(* lib/utils/financial.ts: formatCurrency                                  *)
(***************************************************************************)
\* the nearest integer to x, halves away from zero (Intl's default rounding)
RoundHalfExpand(x) ==
    LET r == ((2 * Abs(x.n)) + x.d) \div (2 * x.d)
    IN  IF x.n < 0 THEN -r ELSE r

Pad2(k) == IF k < 10 THEN "0" \o ToString(k) ELSE ToString(k)

Pad3(k) == IF k < 10 THEN "00" \o ToString(k)
           ELSE IF k < 100 THEN "0" \o ToString(k) ELSE ToString(k)

\* the integer part with en-US grouping separators
RECURSIVE Grouped(_)
Grouped(k) == IF k < 1000 THEN ToString(k)
              ELSE Grouped(k \div 1000) \o "," \o Pad3(k % 1000)

\* what Intl.NumberFormat('en-US', {style: 'currency', currency: code}) puts
\* before the digits; for ZAR it is the ISO code and a no-break space
IntlCurrencyPrefix(code) ==
    CASE code = "USD" -> "$"
      [] code = "GBP" -> "£"
      [] code = "ZAR" -> "ZAR "

\* String.replace(/[A-Z]{3}/, symbol) on the prefix Intl produced
ReplaceIsoCode(prefix, symbol) == IF prefix = "ZAR " THEN symbol \o " " ELSE prefix

formatCurrency(amount, currency) ==
    LET symbol == IF currency \in CurrencyCodes THEN CURRENCIES[currency].symbol ELSE currency
        code   == IF currency = "ZAR" THEN "ZAR" ELSE IF currency = "GBP" THEN "GBP" ELSE "USD"
        cents  == RoundHalfExpand(Times(amount, Num(100)))
        digits == Grouped(Abs(cents) \div 100) \o "." \o Pad2(Abs(cents) % 100)
    IN  (IF cents < 0 THEN "-" ELSE "")
            \o ReplaceIsoCode(IntlCurrencyPrefix(code), symbol) \o digits

(***************************************************************************)
(* lib/utils/financial.ts: validateTransactionAmount                       *)
(***************************************************************************)
\* the absent user (null)
null == [id |-> "null"]

undefined == "undefined"

\* a plausible slip: the daily check placed before the per-transaction checks
validateTransactionAmount_dailyFirst(amount, user, dailySpent, monthlySpent) ==
    IF user = null THEN [isValid |-> FALSE, error |-> "User not authenticated"]
    ELSE
      LET limits == TRANSACTION_LIMITS[user.tier] IN
      IF Gt(Plus(dailySpent, amount), limits.daily) THEN
        [isValid |-> FALSE,
         error |-> "Daily limit of " \o formatCurrency(limits.daily, "USD")
                       \o " would be exceeded"]
      ELSE IF Lt(amount, limits.perTransaction.min) THEN
        [isValid |-> FALSE,
         error |-> "Minimum transfer amount is "
                       \o formatCurrency(limits.perTransaction.min, "USD")]
      ELSE IF Gt(amount, limits.perTransaction.max) THEN
        [isValid |-> FALSE,
         error |-> "Maximum transfer amount is "
                       \o formatCurrency(limits.perTransaction.max, "USD")]
      ELSE IF Gt(Plus(monthlySpent, amount), limits.monthly) THEN
        [isValid |-> FALSE,
         error |-> "Monthly limit of " \o formatCurrency(limits.monthly, "USD")
                       \o " would be exceeded"]
      ELSE [isValid |-> TRUE, error |-> undefined]

\* a plausible slip: >= in place of > (exclusive upper bounds)
validateTransactionAmount_exclusive(amount, user, dailySpent, monthlySpent) ==
    IF user = null THEN [isValid |-> FALSE, error |-> "User not authenticated"]
    ELSE
      LET limits == TRANSACTION_LIMITS[user.tier] IN
      IF Lt(amount, limits.perTransaction.min) THEN
        [isValid |-> FALSE,
         error |-> "Minimum transfer amount is "
                       \o formatCurrency(limits.perTransaction.min, "USD")]
      ELSE IF Le(limits.perTransaction.max, amount) THEN
        [isValid |-> FALSE,
         error |-> "Maximum transfer amount is "
                       \o formatCurrency(limits.perTransaction.max, "USD")]
      ELSE IF Le(limits.daily, Plus(dailySpent, amount)) THEN
        [isValid |-> FALSE,
         error |-> "Daily limit of " \o formatCurrency(limits.daily, "USD")
                       \o " would be exceeded"]
      ELSE IF Le(limits.monthly, Plus(monthlySpent, amount)) THEN
        [isValid |-> FALSE,
         error |-> "Monthly limit of " \o formatCurrency(limits.monthly, "USD")
                       \o " would be exceeded"]
      ELSE [isValid |-> TRUE, error |-> undefined]

\* a plausible slip: the user is read from the store, not from the argument
validateTransactionAmount_storeUser(amount, user, dailySpent, monthlySpent) ==
    IF auth.user = null THEN [isValid |-> FALSE, error |-> "User not authenticated"]
    ELSE
      LET limits == TRANSACTION_LIMITS[auth.user.tier] IN
      IF Lt(amount, limits.perTransaction.min) THEN
        [isValid |-> FALSE,
         error |-> "Minimum transfer amount is "
                       \o formatCurrency(limits.perTransaction.min, "USD")]
      ELSE IF Gt(amount, limits.perTransaction.max) THEN
        [isValid |-> FALSE,
         error |-> "Maximum transfer amount is "
                       \o formatCurrency(limits.perTransaction.max, "USD")]
      ELSE IF Gt(Plus(dailySpent, amount), limits.daily) THEN
        [isValid |-> FALSE,
         error |-> "Daily limit of " \o formatCurrency(limits.daily, "USD")
                       \o " would be exceeded"]
      ELSE IF Gt(Plus(monthlySpent, amount), limits.monthly) THEN
        [isValid |-> FALSE,
         error |-> "Monthly limit of " \o formatCurrency(limits.monthly, "USD")
                       \o " would be exceeded"]
      ELSE [isValid |-> TRUE, error |-> undefined]

validateTransactionAmount(amount, user, dailySpent, monthlySpent) ==
    IF user = null THEN [isValid |-> FALSE, error |-> "User not authenticated"]
    ELSE
      LET limits == TRANSACTION_LIMITS[user.tier] IN
      IF Lt(amount, limits.perTransaction.min) THEN
        [isValid |-> FALSE,
         error |-> "Minimum transfer amount is "
                       \o formatCurrency(limits.perTransaction.min, "USD")]
      ELSE IF Gt(amount, limits.perTransaction.max) THEN
        [isValid |-> FALSE,
         error |-> "Maximum transfer amount is "
                       \o formatCurrency(limits.perTransaction.max, "USD")]
      ELSE IF Gt(Plus(dailySpent, amount), limits.daily) THEN
        [isValid |-> FALSE,
         error |-> "Daily limit of " \o formatCurrency(limits.daily, "USD")
                       \o " would be exceeded"]
      ELSE IF Gt(Plus(monthlySpent, amount), limits.monthly) THEN
        [isValid |-> FALSE,
         error |-> "Monthly limit of " \o formatCurrency(limits.monthly, "USD")
                       \o " would be exceeded"]
      ELSE [isValid |-> TRUE, error |-> undefined]

(***************************************************************************)
(* lib/utils/financial.ts: parseAmount                                     *)
(***************************************************************************)
DigitChars == {"0", "1", "2", "3", "4", "5", "6", "7", "8", "9"}

DigitValue(c) ==
    CASE c = "0" -> 0 [] c = "1" -> 1 [] c = "2" -> 2 [] c = "3" -> 3 [] c = "4" -> 4
      [] c = "5" -> 5 [] c = "6" -> 6 [] c = "7" -> 7 [] c = "8" -> 8 [] c = "9" -> 9

RECURSIVE Pow10(_)
Pow10(k) == IF k = 0 THEN 1 ELSE 10 * Pow10(k - 1)

\* the length of the run of digits at the start of s
RECURSIVE DigitRun(_)
DigitRun(s) == IF s = <<>> \/ Head(s) \notin DigitChars THEN 0 ELSE 1 + DigitRun(Tail(s))

\* the value of a sequence of digits read in base 10
RECURSIVE DigitsValue(_)
DigitsValue(s) ==
    IF s = <<>> THEN 0
    ELSE 10 * DigitsValue(SubSeq(s, 1, Len(s) - 1)) + DigitValue(s[Len(s)])

\* parseFloat on a string of digits and dots: the longest prefix of the form
\* digits, digits '.' digits or '.' digits is converted, anything after it is
\* ignored, and NaN is returned when there is no such prefix
parseFloat(s) ==
    LET i      == DigitRun(s)
        rest   == SubSeq(s, i + 1, Len(s))
        hasDot == rest # <<>> /\ Head(rest) = "."
        j      == IF hasDot THEN DigitRun(Tail(rest)) ELSE 0
        int    == DigitsValue(SubSeq(s, 1, i))
        frac   == IF hasDot THEN DigitsValue(SubSeq(rest, 2, j + 1)) ELSE 0
    IN  IF i = 0 /\ j = 0 THEN NaN
        ELSE Dec(int * Pow10(j) + frac, Pow10(j))

\* the position of the first sep in s, 0 when there is none
RECURSIVE IndexOf(_, _)
IndexOf(s, sep) ==
    IF s = <<>> THEN 0
    ELSE IF Head(s) = sep THEN 1
    ELSE LET k == IndexOf(Tail(s), sep) IN IF k = 0 THEN 0 ELSE k + 1

\* String.split(sep): the pieces of s between the occurrences of sep
RECURSIVE split(_, _)
split(s, sep) ==
    LET k == IndexOf(s, sep)
    IN  IF k = 0 THEN <<s>>
        ELSE <<SubSeq(s, 1, k - 1)>> \o split(SubSeq(s, k + 1, Len(s)), sep)

\* input.replace(/[^0-9.]/g, '')
Cleaned(input) == SelectSeq(input, LAMBDA c : c \in DigitChars \cup {"."})

\* a plausible slip: the decimal-places check made before the sign check
parseAmount_decimalsFirst(input) ==
    LET cleaned == Cleaned(input)
        amount  == parseFloat(cleaned)
        pieces  == split(cleaned, ".")
        decimalPlaces == IF Len(pieces) >= 2 THEN Len(pieces[2]) ELSE 0
    IN  IF isNaN(amount) THEN
          [amount |-> Num(0), isValid |-> FALSE, error |-> "Please enter a valid amount"]
        ELSE IF decimalPlaces > 2 THEN
          [amount |-> Num(0), isValid |-> FALSE,
           error |-> "Amount cannot have more than 2 decimal places"]
        ELSE IF Le(amount, Num(0)) THEN
          [amount |-> Num(0), isValid |-> FALSE, error |-> "Amount must be greater than zero"]
        ELSE [amount |-> amount, isValid |-> TRUE, error |-> undefined]

\* a plausible slip: the accepted amount is rounded to whole units
parseAmount_rounded(input) ==
    LET cleaned == Cleaned(input)
        amount  == parseFloat(cleaned)
        pieces  == split(cleaned, ".")
        decimalPlaces == IF Len(pieces) >= 2 THEN Len(pieces[2]) ELSE 0
    IN  IF isNaN(amount) THEN
          [amount |-> Num(0), isValid |-> FALSE, error |-> "Please enter a valid amount"]
        ELSE IF Le(amount, Num(0)) THEN
          [amount |-> Num(0), isValid |-> FALSE, error |-> "Amount must be greater than zero"]
        ELSE IF decimalPlaces > 2 THEN
          [amount |-> Num(0), isValid |-> FALSE,
           error |-> "Amount cannot have more than 2 decimal places"]
        ELSE [amount |-> MathCeil(amount), isValid |-> TRUE, error |-> undefined]

parseAmount(input) ==
    LET cleaned == Cleaned(input)
        amount  == parseFloat(cleaned)
        pieces  == split(cleaned, ".")
        \* (cleaned.split('.')[1] || '').length
        decimalPlaces == IF Len(pieces) >= 2 THEN Len(pieces[2]) ELSE 0
    IN  IF isNaN(amount) THEN
          [amount |-> Num(0), isValid |-> FALSE, error |-> "Please enter a valid amount"]
        ELSE IF Le(amount, Num(0)) THEN
          [amount |-> Num(0), isValid |-> FALSE, error |-> "Amount must be greater than zero"]
        ELSE IF decimalPlaces > 2 THEN
          [amount |-> Num(0), isValid |-> FALSE,
           error |-> "Amount cannot have more than 2 decimal places"]
        ELSE [amount |-> amount, isValid |-> TRUE, error |-> undefined]

(***************************************************************************)
(* services/api.ts: APIService.makeRequest and getExchangeRates            *)
(***************************************************************************)
\* 5 * 60 * 1000 ms, in minutes
CacheTTL == 5

\* a value that is absent
NoData == [kind |-> "undefined"]

NoError == [code |-> undefined]

\* a JSON string in the place of a rate
JsonString == [str |-> "0.74"]

IsNumber(v) == DOMAIN v = {"n", "d"}

\* the table getExchangeRates starts from
DefaultRates ==
    [c \in CurrencyCodes |->
        CASE c = "USD"  -> Num(1)
          [] c = "GBP"  -> Dec(74, 100)
          [] c = "ZAR"  -> Dec(1775, 100)
          [] c = "USDT" -> Num(1)]

\* an object of the response array: its keys with their values, in key order
Item(entries) == [kind |-> "object", entries |-> entries]

NullItem == [kind |-> "null", entries |-> <<>>]

ArrayBody(items) == [kind |-> "array", items |-> items]

\* bodies the remote endpoint may answer with
RateKeys == {"USD", "GBP", "EUR"}

RateJsonValues == {Dec(79, 100), Num(0), JsonString, null}

SingleItems == {Item(<<<<k, v>>>>) : k \in RateKeys, v \in RateJsonValues} \cup {NullItem}

WellFormedBodies ==
    {ArrayBody(<<Item(<<<<"USD", Num(1)>>>>), Item(<<<<"GBP", Dec(74, 100)>>>>),
                 Item(<<<<"ZAR", Dec(1775, 100)>>>>), Item(<<<<"USDT", Num(1)>>>>)>>),
     ArrayBody(<<Item(<<<<"GBP", Dec(79, 100)>>, <<"ZAR", Dec(182, 10)>>>>)>>)}

Bodies ==
    {ArrayBody(<<>>)} \cup {ArrayBody(<<i>>) : i \in SingleItems}
        \cup WellFormedBodies
        \cup {ArrayBody(<<Item(<<<<"GBP", Dec(79, 100)>>>>), Item(<<<<"GBP", Num(0)>>>>)>>),
              [kind |-> "object", items |-> <<>>],
              [kind |-> "null", items |-> <<>>]}

\* what a fetch can end with: a rejected promise, a non-OK status, a body
\* that is not JSON, or a JSON body
FetchFailures ==
    {[fetch |-> f, body |-> NoData] : f \in {"rejected", "notOk", "invalidJson"}}

FetchOutcomes == FetchFailures \cup {[fetch |-> "ok", body |-> b] : b \in Bodies}

\* makeRequest after the fetch has settled (try / catch)
makeRequestResult(outcome, now) ==
    IF outcome.fetch = "ok"
    THEN [success |-> TRUE, data |-> outcome.body, error |-> NoError, timestamp |-> now]
    ELSE [success |-> FALSE, data |-> NoData,
          error |-> [code |-> "NETWORK_ERROR"], timestamp |-> now]

\* Object.keys(item).forEach(currency => { if (currency in rates) ... })
RECURSIVE ExtractEntries(_, _)
ExtractEntries(rates, entries) ==
    IF entries = <<>> THEN rates
    ELSE LET currency == Head(entries)[1]
             value    == Head(entries)[2]
         IN  ExtractEntries(IF currency \in DOMAIN rates
                               THEN [rates EXCEPT ![currency] = value]
                               ELSE rates,
                            Tail(entries))

\* response.data.forEach(item => ...)
RECURSIVE ExtractItems(_, _)
ExtractItems(rates, items) ==
    IF items = <<>> THEN rates
    ELSE ExtractItems(ExtractEntries(rates, Head(items).entries), Tail(items))

\* the statements of the try block throw: data that is not an array has no
\* forEach, and Object.keys(null) is a TypeError
TransformThrows(data) ==
    \/ data.kind # "array"
    \/ \E i \in 1..Len(data.items) : data.items[i].kind = "null"

ExchangeRatesError(now) ==
    [success |-> FALSE, data |-> NoData,
     error |-> [code |-> "EXCHANGE_RATES_ERROR"], timestamp |-> now]

\* getExchangeRates once makeRequest has returned response
getExchangeRatesResult(response, now) ==
    IF ~response.success \/ response.data.kind \in {"undefined", "null"}
    THEN ExchangeRatesError(now)
    ELSE IF TransformThrows(response.data) THEN ExchangeRatesError(now)
    ELSE [success |-> TRUE, data |-> ExtractItems(DefaultRates, response.data.items),
          error |-> NoError, timestamp |-> now]

(***************************************************************************)
(* Transactions, users and browser storage                                 *)
(***************************************************************************)
\* createMockUser(): the demo account
MockUser == [id |-> "user_demo_123", tier |-> "basic"]

\* the accounts that can hold a session: the demo account and a registered one
SessionUsers == {MockUser, [id |-> "user_2", tier |-> "basic"]}

StartDate == [y |-> 2025, m |-> 3, d |-> 14]

\* createdAt: the calendar day and the position seq of the instant within it
At(date, seq) == [y |-> date.y, m |-> date.m, d |-> date.d, seq |-> seq]

\* new Date(createdAt).getTime(), up to a monotone rescaling
GetTime(createdAt) ==
    (((createdAt.y * 12) + createdAt.m) * 31 + createdAt.d) * (MaxTx + 2) + createdAt.seq

\* what generateMockTransactions can produce for one entry created today
MockTransaction(i, status, completedAt) ==
    [id |-> "txn_" \o ToString(i), userId |-> MockUser.id,
     destinationCountry |-> "UK", currency |-> "GBP",
     sourceAmount |-> Num(400), exchangeRate |-> Dec(74, 100), fee |-> Num(40),
     finalAmount |-> Dec(26640, 100), status |-> status,
     createdAt |-> At(StartDate, 0), completedAt |-> completedAt]

RECURSIVE MockLists(_)
MockLists(count) ==
    IF count = 0 THEN {<<>>}
    ELSE {Append(l, MockTransaction(count - 1, st, c)) :
            l \in MockLists(count - 1), st \in {"completed", "pending"},
            c \in {<<>>, <<StartDate>>}}

\* generateMockTransactions(userId, count), with MaxMock entries for count
generateMockTransactions == MockLists(MaxMock)

\* the list put first those with the greater createdAt; equal ones keep
\* their order (Array.prototype.sort is stable)
RECURSIVE InsertByCreatedAt(_, _)
InsertByCreatedAt(sorted, t) ==
    IF sorted = <<>> THEN <<t>>
    ELSE IF GetTime(Head(sorted).createdAt) >= GetTime(t.createdAt)
         THEN <<Head(sorted)>> \o InsertByCreatedAt(Tail(sorted), t)
         ELSE <<t>> \o sorted

RECURSIVE SortByCreatedAtDesc(_)
SortByCreatedAtDesc(list) ==
    IF list = <<>> THEN <<>>
    ELSE InsertByCreatedAt(SortByCreatedAtDesc(SubSeq(list, 1, Len(list) - 1)),
                           list[Len(list)])

\* JSON.parse(localStorage.getItem('wiremit_transactions') || '[]')
StoredTransactions == IF lsTransactions.present THEN lsTransactions.list ELSE <<>>

(***************************************************************************)
(* SendMoneySection: state, recalculation effect, calculateTransaction     *)
(***************************************************************************)
EmptyForm == [amount |-> <<>>, destinationCountry |-> "", recipientName |-> ""]

ZeroValues ==
    [fee |-> Num(0), exchangeRate |-> Num(0), finalAmount |-> Num(0), isCalculating |-> FALSE]

\* the amounts the user types: a valid one and one parseAmount rejects
FormAmounts == {<<"2", "0", "0">>, <<"0">>}

\* the effect on [formData.amount, formData.destinationCountry, exchangeRates],
\* run with the form and the rates of the render it belongs to:
\* calculateTransaction() when all three are set, a reset otherwise
RecalculationEffect(form, rates) ==
    /\ UNCHANGED isSubmitting
    /\ IF form.amount # <<>> /\ form.destinationCountry # "" /\ rates # null
       THEN LET amountParsed == parseAmount(form.amount)
            IN  IF amountParsed.isValid
                THEN /\ Len(calcTimers) < MaxTimers
                     /\ calculatedValues' = [calculatedValues EXCEPT !.isCalculating = TRUE]
                     /\ calcTimers' = Append(calcTimers,
                                             [amount |-> amountParsed.amount,
                                              destination |-> form.destinationCountry,
                                              exchangeRates |-> rates])
                     /\ UNCHANGED showCalculation
                ELSE UNCHANGED <<calculatedValues, calcTimers, showCalculation>>
       ELSE /\ calculatedValues' = ZeroValues
            /\ showCalculation' = FALSE
            /\ UNCHANGED calcTimers

\* a plausible slip: the final amount is computed from the amount before the fee
CalculatedBy_noFee(amount, destination, rates) ==
    LET currency     == COUNTRIES[destination].currency
        exchangeRate == rates[currency]
        fee          == calculateFee(amount, destination)
        finalAmount  == calculateFinalAmount(amount, exchangeRate, Num(0))
    IN  [fee |-> fee, exchangeRate |-> exchangeRate, finalAmount |-> finalAmount,
         isCalculating |-> FALSE]

\* the body of the timeout callback of calculateTransaction
CalculatedBy(amount, destination, rates) ==
    LET currency     == COUNTRIES[destination].currency
        exchangeRate == rates[currency]
        fee          == calculateFee(amount, destination)
        finalAmount  == calculateFinalAmount(amount, exchangeRate, fee)
    IN  [fee |-> fee, exchangeRate |-> exchangeRate, finalAmount |-> finalAmount,
         isCalculating |-> FALSE]

(***************************************************************************)
(* SendMoneySection: loadExchangeRates, and the store's setExchangeRates   *)
(***************************************************************************)
NoResponse == [success |-> FALSE, data |-> NoData, error |-> NoError, timestamp |-> 0]

\* loadExchangeRates after getExchangeRates has returned response:
\* setExchangeRates when it succeeded, and then the recalculation effect of
\* the mounted section, which depends on exchangeRates
ReceiveExchangeRates(response) ==
    /\ ratesResponse' = response
    /\ IF response.success /\ response.data # NoData
       THEN /\ exchangeRates' = response.data
            /\ ratesLastUpdated' = <<clock>>
            /\ IF auth.isAuthenticated
               THEN RecalculationEffect(formData, response.data)
               ELSE UNCHANGED formVars
       ELSE UNCHANGED <<exchangeRates, ratesLastUpdated, formVars>>

\* a plausible slip: an entry whose age equals its TTL is still served
loadExchangeRates_inclusive ==
    IF cache # <<>> /\ clock - cache[1].timestamp <= cache[1].ttl
    THEN /\ ReceiveExchangeRates(getExchangeRatesResult(cache[1].data, clock))
         /\ UNCHANGED <<cache, inFlight>>
    ELSE /\ inFlight < MaxInFlight
         /\ cache' = <<>>
         /\ inFlight' = inFlight + 1
         /\ UNCHANGED <<ratesResponse, exchangeRates, ratesLastUpdated, formVars>>

\* loadExchangeRates up to the first suspension: makeRequest answers from the
\* cache while the entry is younger than its TTL, otherwise it drops the
\* entry and starts a fetch
loadExchangeRates ==
    IF cache # <<>> /\ clock - cache[1].timestamp < cache[1].ttl
    THEN /\ ReceiveExchangeRates(getExchangeRatesResult(cache[1].data, clock))
         /\ UNCHANGED <<cache, inFlight>>
    ELSE /\ inFlight < MaxInFlight
         /\ cache' = <<>>
         /\ inFlight' = inFlight + 1
         /\ UNCHANGED <<ratesResponse, exchangeRates, ratesLastUpdated, formVars>>

\* the mount effect of SendMoneySection
MountEffect ==
    IF exchangeRates = null THEN loadExchangeRates
    ELSE UNCHANGED <<cache, inFlight, ratesResponse, exchangeRates, ratesLastUpdated, formVars>>

\* the section is mounted while the store holds no rates
MountLoadExchangeRates ==
    /\ exchangeRates = null
    /\ MountEffect
    /\ UNCHANGED <<clock, calcVars, accountVars, storageVars, sessionVars, validationVars, apiVars>>
    /\ UNCHANGED <<mockTransactions, registerResponse>>

\* a fetch settles: makeRequest caches a successful response and returns,
\* getExchangeRates transforms it and loadExchangeRates stores the table
FetchSettles(outcome) ==
    /\ inFlight > 0
    /\ LET response == makeRequestResult(outcome, clock)
       IN  /\ cache' = IF response.success
                       THEN <<[data |-> response, timestamp |-> clock, ttl |-> CacheTTL]>>
                       ELSE cache
           /\ ReceiveExchangeRates(getExchangeRatesResult(response, clock))
    /\ inFlight' = inFlight - 1

\* the endpoint answers with anything
FetchExchangeRatesSettles ==
    /\ \E outcome \in FetchOutcomes : FetchSettles(outcome)
    /\ UNCHANGED <<clock, calcVars, accountVars, storageVars, sessionVars, validationVars, apiVars>>
    /\ UNCHANGED <<mockTransactions, registerResponse>>

\* the endpoint answers with numeric rates, or the fetch fails
NumericOutcomes ==
    {[fetch |-> "rejected", body |-> NoData]} \cup {[fetch |-> "ok", body |-> b] : b \in WellFormedBodies}

FetchNumericRatesSettles ==
    /\ \E outcome \in NumericOutcomes : FetchSettles(outcome)
    /\ UNCHANGED <<clock, calcVars, accountVars, storageVars, sessionVars, validationVars, apiVars>>
    /\ UNCHANGED <<mockTransactions, registerResponse>>

\* a minute passes
Tick ==
    /\ clock < MaxClock
    /\ clock' = clock + 1
    /\ UNCHANGED <<cache, inFlight, ratesResponse, exchangeRates, ratesLastUpdated>>
    /\ UNCHANGED <<calcVars, accountVars, storageVars, sessionVars, validationVars, formVars, apiVars>>
    /\ UNCHANGED <<mockTransactions, registerResponse>>

(***************************************************************************)
(* Accounts, the login rate limit, and what Index renders                  *)
(***************************************************************************)
\* the store's initial auth, which logout restores
NoAuth ==
    [user |-> null, isAuthenticated |-> FALSE, isLoading |-> FALSE,
     sessionToken |-> undefined, refreshToken |-> undefined]

\* generateToken(): an opaque string
Token == "token"

\* the entry initializeMockData writes to wiremit_users
DemoAccount ==
    [email |-> "john.doe@example.com", password |-> "password123", user |-> MockUser]

NoUsers == [present |-> FALSE, list |-> <<>>]

\* JSON.parse(localStorage.getItem('wiremit_users') || '[]')
StoredUsers == IF lsUsers.present THEN lsUsers.list ELSE <<>>

\* mockUsers.find(u => u.email === email): <<the first match>>, or <<>> for
\* undefined
FindByEmail(list, email) ==
    LET hits == SelectSeq(list, LAMBDA u : u.email = email)
    IN  IF hits = <<>> THEN <<>> ELSE <<Head(hits)>>

\* String.prototype.toLowerCase on the addresses typed here
toLowerCase(s) == IF s = "Jane@example.com" THEN "jane@example.com" ELSE s

\* the window of the login rate limit, in minutes, and its attempts
LoginWindow == 15

LoginAttempts == 5

NoRateLimit == [allowed |-> FALSE, remaining |-> -1, resetTime |-> -1]

Max(a, b) == IF a > b THEN a ELSE b

\* checkRateLimit(key, attempts, windowMs) at the instant now, with the item
\* stored under the key: what it leaves stored and what it returns
checkRateLimit(stored, now, attempts, windowMs) ==
    LET fresh   == [count |-> 0, resetTime |-> now + windowMs]
        parsed  == IF stored # <<>> THEN stored[1] ELSE fresh
        data    == IF now >= parsed.resetTime THEN fresh ELSE parsed
        allowed == data.count < attempts
        counted == IF allowed THEN [data EXCEPT !.count = @ + 1] ELSE data
    IN  [stored |-> IF allowed THEN <<counted>> ELSE stored,
         result |-> [allowed |-> allowed,
                     remaining |-> Max(0, attempts - counted.count),
                     resetTime |-> counted.resetTime]]

\* apiService.login(email, password) once its delay has passed: the response
\* and the users it leaves stored
LoginResult(list, email, password) ==
    LET user == FindByEmail(list, email)
    IN  IF user = <<>>
        THEN [success |-> FALSE, message |-> "No account found with this email address",
              user |-> null]
        ELSE IF user[1].password # password
        THEN [success |-> FALSE, message |-> "Invalid email or password", user |-> null]
        ELSE [success |-> TRUE, message |-> "", user |-> user[1].user]

\* the id generateId gives the account a registration creates
RegisteredUser == [id |-> "user_2", tier |-> "basic"]

\* apiService.register(userData) once its delay has passed
\* a plausible slip: the check for an existing account is left out
RegisterResult_unchecked(list, email, password) ==
    [success |-> TRUE, code |-> "", message |-> "",
     list |-> Append(list, [email |-> email, password |-> password,
                            user |-> RegisteredUser,
                            isVerified |-> FALSE, mfaEnabled |-> FALSE])]

RegisterResult(list, email, password) ==
    IF \E i \in 1..Len(list) : list[i].email = email
    THEN [success |-> FALSE, code |-> "USER_EXISTS",
          message |-> "An account with this email already exists", list |-> list]
    ELSE [success |-> TRUE, code |-> "", message |-> "",
          list |-> Append(list, [email |-> email, password |-> password,
                                 user |-> RegisteredUser,
                                 isVerified |-> FALSE, mfaEnabled |-> FALSE])]

\* what Index renders for a store
Display(a) ==
    IF a.isLoading THEN "loading"
    ELSE IF a.isAuthenticated THEN "dashboard" ELSE "auth"

\* AuthPage as mounted: the login form without errors
FreshAuthPage == [mounted |-> TRUE, mode |-> "login", general |-> ""]

NoAuthPage == [mounted |-> FALSE, mode |-> "login", general |-> ""]

\* the AuthPage after a render with the store a: kept while Index keeps
\* rendering it, mounted afresh when Index renders it again
AuthPageAfter(a, page) ==
    IF Display(a) # "auth" THEN NoAuthPage
    ELSE IF page.mounted THEN page ELSE FreshAuthPage

\* the timeouts after a render with the store a: those set by a form that the
\* render unmounts belong to no mounted form any more
TimersAfter(a, timers) ==
    [i \in 1..Len(timers) |->
        [timers[i] EXCEPT !.form = @ /\ Display(a) = "auth"]]

\* whether a 1 s timeout of a kind is pending
HasTimer(kind) == \E i \in 1..Len(oneSecondTimers) : oneSecondTimers[i].kind = kind

\* the logout confirmation is an AlertDialog: while handleLogout waits, it
\* stays open and the page behind it takes no input
DialogWaits == HasTimer("logout")

\* a 1 s timeout
Timer(kind, email, password, user, form) ==
    [kind |-> kind, email |-> email, password |-> password, user |-> user, form |-> form]

(***************************************************************************)
(* Index: session restore; Dashboard: loadInitialData                      *)
(***************************************************************************)
\* the effect of Index on page load: initializeMockData(), then the session
\* is restored when the token cookie and the stored user are present, which
\* renders the Dashboard (loadInitialData starts, SendMoneySection mounts)
IndexMount ==
    /\ ~appLoaded
    /\ appLoaded' = TRUE
    /\ \E mock \in generateMockTransactions :
          lsTransactions' = IF lsTransactions.present THEN lsTransactions
                            ELSE [present |-> TRUE, list |-> mock]
    /\ lsUsers' = IF lsUsers.present THEN lsUsers
                  ELSE [present |-> TRUE, list |-> <<DemoAccount>>]
    /\ currentUser' = IF currentUser = null THEN MockUser ELSE currentUser
    /\ IF authToken
       THEN /\ auth' = [auth EXCEPT !.user = currentUser', !.isAuthenticated = TRUE,
                                    !.isLoading = FALSE]
            /\ pendingLoads' = Append(pendingLoads, currentUser'.id)
            /\ MountEffect
       ELSE /\ auth' = [auth EXCEPT !.isLoading = FALSE]
            /\ UNCHANGED <<pendingLoads, cache, inFlight, ratesResponse,
                           exchangeRates, ratesLastUpdated, formVars>>
    /\ authPage' = AuthPageAfter(auth', authPage)
    /\ oneSecondTimers' = TimersAfter(auth', oneSecondTimers)
    /\ UNCHANGED <<rateLimit, refreshCookie, lastRateLimit, allowedAt, lastLogin>>
    /\ UNCHANGED <<clock, today, transactions, authToken, calcVars, validationVars,
                   pendingCreate, processingTimers, completedTimers, nextId>>
    /\ mockTransactions' = <<>>
    /\ UNCHANGED registerResponse

\* getTransactions returns: the stored transactions of the user it was
\* called for, which loadInitialData hands to setTransactions
GetTransactionsReturns ==
    /\ pendingLoads # <<>>
    /\ LET userId == Head(pendingLoads)
       IN  transactions' = SelectSeq(StoredTransactions, LAMBDA t : t.userId = userId)
    /\ pendingLoads' = Tail(pendingLoads)
    /\ UNCHANGED <<today, appLoaded, auth, pendingCreate, processingTimers,
                   completedTimers, nextId>>
    /\ UNCHANGED <<calcVars, accountVars, ratesVars, storageVars, validationVars, formVars>>
    /\ UNCHANGED <<mockTransactions, registerResponse>>

(***************************************************************************)
(* SendMoneySection: validateForm                                          *)
(***************************************************************************)
\* new Date(createdAt).toDateString() === new Date().toDateString()
SameDateString(createdAt, now) ==
    createdAt.y = now.y /\ createdAt.m = now.m /\ createdAt.d = now.d

\* new Date(createdAt).getMonth() === new Date().getMonth()
SameGetMonth(createdAt, now) == createdAt.m = now.m

\* list.reduce((sum, t) => sum + t.sourceAmount, 0)
RECURSIVE SumSourceAmount(_)
SumSourceAmount(list) ==
    IF list = <<>> THEN Num(0)
    ELSE Plus(SumSourceAmount(SubSeq(list, 1, Len(list) - 1)), list[Len(list)].sourceAmount)

\* a plausible slip: the filter compares the transaction's own id
UserTransactions_byId(list, user) ==
    SelectSeq(list, LAMBDA t : user # null /\ t.id = user.id)

\* transactions.filter(t => t.userId === auth.user?.id)
UserTransactions(list, user) ==
    SelectSeq(list, LAMBDA t : user # null /\ t.userId = user.id)

DailySpent(list, user, now) ==
    SumSourceAmount(SelectSeq(UserTransactions(list, user),
                              LAMBDA t : SameDateString(t.createdAt, now)))

MonthlySpent(list, user, now) ==
    SumSourceAmount(SelectSeq(UserTransactions(list, user),
                              LAMBDA t : SameGetMonth(t.createdAt, now)))

NoErrors == [amount |-> "", destinationCountry |-> "", recipientName |-> ""]

NoLimitArgs ==
    [passed |-> FALSE, amount |-> Num(0), user |-> null,
     dailySpent |-> Num(0), monthlySpent |-> Num(0)]

\* the arguments validateForm hands to validateTransactionAmount; the call is
\* made only when the amount parses
LimitArgsOf(form, list, user, now) ==
    LET amountValidation == parseAmount(form.amount)
    IN  IF ~amountValidation.isValid THEN NoLimitArgs
        ELSE [passed |-> TRUE, amount |-> amountValidation.amount, user |-> user,
              dailySpent |-> DailySpent(list, user, now),
              monthlySpent |-> MonthlySpent(list, user, now)]

\* newErrors of validateForm ("" for a field without an error)
NewErrors(form, list, user, now) ==
    LET amountValidation == parseAmount(form.amount)
        la == LimitArgsOf(form, list, user, now)
        limitValidation ==
            validateTransactionAmount(la.amount, la.user, la.dailySpent, la.monthlySpent)
    IN  [amount |->
            IF ~amountValidation.isValid THEN amountValidation.error
            ELSE IF ~limitValidation.isValid THEN limitValidation.error ELSE "",
         destinationCountry |->
            IF form.destinationCountry = "" THEN "Please select a destination country"
            ELSE "",
         recipientName |->
            IF form.recipientName = "" THEN "Recipient name is required" ELSE ""]

\* validateForm: sets errors and returns whether there are none
validateForm ==
    /\ errors' = NewErrors(formData, transactions, auth.user, today)
    /\ limitArgs' = LimitArgsOf(formData, transactions, auth.user, today)

validateFormPasses == NewErrors(formData, transactions, auth.user, today) = NoErrors

(***************************************************************************)
(* SendMoneySection: handlers                                              *)
(***************************************************************************)
\* handleChange('amount', value), and the recalculation effect
HandleChangeAmount ==
    /\ auth.isAuthenticated
    /\ ~DialogWaits
    /\ \E value \in FormAmounts \cup {<<>>} :
          /\ value # formData.amount
          /\ formData' = [formData EXCEPT !.amount = value]
          /\ RecalculationEffect(formData', exchangeRates)
    /\ errors' = [errors EXCEPT !.amount = ""]
    /\ UNCHANGED limitArgs
    /\ UNCHANGED <<calcVars, accountVars, ratesVars, storageVars, sessionVars, apiVars>>
    /\ UNCHANGED <<mockTransactions, registerResponse>>

\* handleChange('destinationCountry', value), and the recalculation effect
HandleChangeDestination ==
    /\ auth.isAuthenticated
    /\ ~DialogWaits
    /\ \E value \in Destinations :
          /\ value # formData.destinationCountry
          /\ formData' = [formData EXCEPT !.destinationCountry = value]
          /\ RecalculationEffect(formData', exchangeRates)
    /\ errors' = [errors EXCEPT !.destinationCountry = ""]
    /\ UNCHANGED limitArgs
    /\ UNCHANGED <<calcVars, accountVars, ratesVars, storageVars, sessionVars, apiVars>>
    /\ UNCHANGED <<mockTransactions, registerResponse>>

\* handleChange('recipientName', value)
HandleChangeRecipientName ==
    /\ auth.isAuthenticated
    /\ ~DialogWaits
    /\ \E value \in {"John Doe"} :
          /\ value # formData.recipientName
          /\ formData' = [formData EXCEPT !.recipientName = value]
    /\ errors' = [errors EXCEPT !.recipientName = ""]
    /\ UNCHANGED limitArgs
    /\ UNCHANGED <<calcVars, accountVars, ratesVars, storageVars, sessionVars, formVars, apiVars>>
    /\ UNCHANGED <<mockTransactions, registerResponse>>

\* the oldest timeout of calculateTransaction fires, 800 ms after an edit in
\* the mounted section: the 500 ms wait of the getTransactions call made when
\* the Dashboard mounted is over by then
CalculationTimerFires ==
    /\ calcTimers # <<>>
    /\ pendingLoads = <<>>
    /\ LET timer == Head(calcTimers)
       IN  calculatedValues' = CalculatedBy(timer.amount, timer.destination, timer.exchangeRates)
    /\ showCalculation' = TRUE
    /\ calcTimers' = Tail(calcTimers)
    /\ UNCHANGED isSubmitting
    /\ UNCHANGED <<calcVars, accountVars, ratesVars, storageVars, sessionVars, validationVars, apiVars>>
    /\ UNCHANGED <<mockTransactions, registerResponse>>

\* handleSubmit up to the call of createTransaction; the submit button is
\* disabled while isSubmitting or not showCalculation
HandleSubmit ==
    /\ auth.isAuthenticated
    /\ ~DialogWaits
    /\ ~isSubmitting
    /\ showCalculation
    /\ validateForm
    /\ IF validateFormPasses /\ auth.user # null
       THEN /\ nextId + Len(pendingCreate) <= MaxTx
            /\ isSubmitting' = TRUE
            /\ pendingCreate' =
                  Append(pendingCreate,
                         [mounted |-> TRUE, userId |-> auth.user.id,
                          destinationCountry |-> formData.destinationCountry,
                          currency |-> COUNTRIES[formData.destinationCountry].currency,
                          sourceAmount |-> parseAmount(formData.amount).amount,
                          exchangeRate |-> calculatedValues.exchangeRate,
                          fee |-> calculatedValues.fee,
                          finalAmount |-> calculatedValues.finalAmount])
       ELSE UNCHANGED <<isSubmitting, pendingCreate>>
    /\ UNCHANGED <<formData, calculatedValues, showCalculation, calcTimers, pendingLoads,
                   processingTimers, completedTimers, nextId>>
    /\ UNCHANGED <<calcVars, accountVars, ratesVars, storageVars, sessionVars>>
    /\ UNCHANGED <<mockTransactions, registerResponse>>

\* createTransaction returns: the record is stored and its two status
\* timeouts are set; handleSubmit then adds it to the store, resets the form
\* of the section that submitted, if that is still mounted (so the
\* recalculation effect resets the calculated values), and ends
CreateTransactionReturns ==
    /\ pendingCreate # <<>>
    /\ LET data == Head(pendingCreate)
           transaction ==
               [id |-> "id_" \o ToString(nextId), userId |-> data.userId,
                destinationCountry |-> data.destinationCountry,
                currency |-> data.currency, sourceAmount |-> data.sourceAmount,
                exchangeRate |-> data.exchangeRate, fee |-> data.fee,
                finalAmount |-> data.finalAmount, status |-> "pending",
                createdAt |-> At(today, nextId), completedAt |-> <<>>]
       IN  /\ lsTransactions' = [present |-> TRUE,
                                 list |-> <<transaction>> \o StoredTransactions]
           /\ processingTimers' = Append(processingTimers, transaction.id)
           /\ completedTimers' = Append(completedTimers, transaction.id)
           /\ transactions' = SortByCreatedAtDesc(<<transaction>> \o transactions)
    /\ pendingCreate' = Tail(pendingCreate)
    /\ nextId' = nextId + 1
    /\ IF Head(pendingCreate).mounted
       THEN /\ formData' = EmptyForm
            /\ calculatedValues' =
                  IF formData.amount # <<>> \/ formData.destinationCountry # ""
                  THEN ZeroValues ELSE calculatedValues
            /\ showCalculation' = FALSE
            /\ isSubmitting' = FALSE
       ELSE UNCHANGED <<formData, calculatedValues, showCalculation, isSubmitting>>
    /\ UNCHANGED <<errors, limitArgs, calcTimers, pendingLoads, authToken, currentUser,
                   today, appLoaded, auth>>
    /\ UNCHANGED <<calcVars, accountVars, ratesVars>>
    /\ UNCHANGED <<mockTransactions, registerResponse>>

\* a plausible slip: the status is written to every record
updateTransactionStatus_all(list, id, status) ==
    [i \in 1..Len(list) |->
        [list[i] EXCEPT !.status = status,
                        !.completedAt = IF status = "completed" THEN <<today>> ELSE @]]

\* updateTransactionStatus(id, status) on the stored list
updateTransactionStatus(list, id, status) ==
    [i \in 1..Len(list) |->
        IF list[i].id = id /\ \A j \in 1..(i - 1) : list[j].id # id
        THEN [list[i] EXCEPT !.status = status,
                             !.completedAt = IF status = "completed" THEN <<today>> ELSE @]
        ELSE list[i]]

\* the oldest 3 s timeout fires
ProcessingTimerFires ==
    /\ processingTimers # <<>>
    /\ lsTransactions' =
          [lsTransactions EXCEPT
              !.list = updateTransactionStatus(StoredTransactions, Head(processingTimers),
                                               "processing")]
    /\ processingTimers' = Tail(processingTimers)
    /\ UNCHANGED <<authToken, currentUser, pendingCreate, pendingLoads, completedTimers, nextId>>
    /\ UNCHANGED <<calcVars, accountVars, ratesVars, sessionVars, validationVars, formVars>>
    /\ UNCHANGED <<mockTransactions, registerResponse>>

\* the oldest 8 s timeout fires; the 3 s timeout of the same call fired before
ProcessingFired(id) == \A i \in 1..Len(processingTimers) : processingTimers[i] # id

CompletedTimerFires ==
    /\ completedTimers # <<>>
    /\ ProcessingFired(Head(completedTimers))
    /\ lsTransactions' =
          [lsTransactions EXCEPT
              !.list = updateTransactionStatus(StoredTransactions, Head(completedTimers),
                                               "completed")]
    /\ completedTimers' = Tail(completedTimers)
    /\ UNCHANGED <<authToken, currentUser, pendingCreate, pendingLoads, processingTimers, nextId>>
    /\ UNCHANGED <<calcVars, accountVars, ratesVars, sessionVars, validationVars, formVars>>
    /\ UNCHANGED <<mockTransactions, registerResponse>>

\* validateForm applied to the store, the form and the day at hand
ValidateForm ==
    /\ validateForm
    /\ UNCHANGED formData
    /\ UNCHANGED <<calcVars, accountVars, ratesVars, storageVars, sessionVars, formVars, apiVars>>
    /\ UNCHANGED <<mockTransactions, registerResponse>>

(***************************************************************************)
(* Dashboard: what mounting and unmounting it does                         *)
(***************************************************************************)
\* the Dashboard is mounted for user: loadInitialData calls getTransactions,
\* and the mount effect of SendMoneySection runs
DashboardMounts(user) ==
    /\ pendingLoads' = Append(pendingLoads, user.id)
    /\ MountEffect

\* the Dashboard is unmounted: the state of SendMoneySection is gone (the
\* next mount starts from the initial one), and what its timeouts and
\* pending submissions set on it afterwards is lost
DashboardUnmounts ==
    /\ formData' = EmptyForm
    /\ errors' = NoErrors
    /\ calculatedValues' = ZeroValues
    /\ showCalculation' = FALSE
    /\ isSubmitting' = FALSE
    /\ calcTimers' = <<>>
    /\ pendingCreate' = [i \in 1..Len(pendingCreate) |->
                            [pendingCreate[i] EXCEPT !.mounted = FALSE]]

(***************************************************************************)
(* LoginForm: handleSubmit                                                 *)
(***************************************************************************)
\* the credentials a visitor types: the demo account's, a wrong password,
\* and the registered account's address as typed and in lower case
LoginInputs ==
    {<<"john.doe@example.com", "password123">>, <<"john.doe@example.com", "wrong">>,
     <<"jane@example.com", "Secret1!">>, <<"Jane@example.com", "Secret1!">>}

\* the number of allowed submissions whose instants are remembered
MaxAllowed == LoginAttempts + 1

\* the last k elements of s
LastOf(s, k) == IF Len(s) <= k THEN s ELSE SubSeq(s, Len(s) - k + 1, Len(s))

\* handleSubmit of LoginForm with a filled-in form, up to the call of
\* apiService.login: validateForm replaces the errors, checkRateLimit counts
\* the attempt, setLoading(true) makes Index render the loading screen
LoginSubmit ==
    /\ appLoaded
    /\ authPage.mounted
    /\ authPage.mode = "login"
    /\ \E input \in LoginInputs :
          LET check == checkRateLimit(rateLimit, clock, LoginAttempts, LoginWindow)
          IN  /\ rateLimit' = check.stored
              /\ lastRateLimit' = check.result
              /\ IF check.result.allowed
                 THEN /\ auth' = [auth EXCEPT !.isLoading = TRUE]
                      /\ allowedAt' = LastOf(Append(allowedAt, clock), MaxAllowed)
                      /\ oneSecondTimers' =
                            TimersAfter(auth', Append(oneSecondTimers,
                                                      Timer("login", input[1], input[2],
                                                            null, TRUE)))
                 ELSE UNCHANGED <<auth, allowedAt, oneSecondTimers>>
    /\ authPage' = AuthPageAfter(auth', [authPage EXCEPT !.general = ""])
    /\ UNCHANGED <<lsUsers, refreshCookie, lastLogin, today, appLoaded, transactions>>
    /\ UNCHANGED <<calcVars, ratesVars, storageVars, validationVars, formVars, apiVars>>
    /\ UNCHANGED <<mockTransactions, registerResponse>>

\* the oldest 1 s timeout fires (timeouts of equal delay fire in the order
\* they were set): apiService.login returns and handleSubmit ends: on success
\* the store's login, on failure setErrors on the form that submitted, and
\* setLoading(false) in both cases; then Index renders
LoginReturns ==
    /\ oneSecondTimers # <<>>
    /\ Head(oneSecondTimers).kind = "login"
    \* a createTransaction call (2 s) still pending was made before the logout
    \* (1 s) that led to this login (1 s): it has returned
    /\ pendingCreate = <<>>
    /\ LET timer    == Head(oneSecondTimers)
           response == LoginResult(StoredUsers, timer.email, timer.password)
           page     == IF ~response.success /\ timer.form
                       THEN [authPage EXCEPT !.general = response.message]
                       ELSE authPage
       IN  /\ IF response.success
              THEN /\ currentUser' = response.user
                   /\ authToken' = TRUE
                   /\ refreshCookie' = TRUE
                   /\ lastLogin' = response.user
                   /\ auth' = [auth EXCEPT !.user = response.user,
                                           !.isAuthenticated = TRUE,
                                           !.sessionToken = Token,
                                           !.refreshToken = Token,
                                           !.isLoading = FALSE]
              ELSE /\ auth' = [auth EXCEPT !.isLoading = FALSE]
                   /\ UNCHANGED <<currentUser, authToken, refreshCookie, lastLogin>>
           /\ authPage' = AuthPageAfter(auth', page)
           /\ oneSecondTimers' = TimersAfter(auth', Tail(oneSecondTimers))
           /\ IF Display(auth') = "dashboard" /\ Display(auth) # "dashboard"
              THEN DashboardMounts(auth'.user)
              ELSE UNCHANGED <<pendingLoads, cache, inFlight, ratesResponse,
                               exchangeRates, ratesLastUpdated, formVars>>
    /\ UNCHANGED <<lsUsers, rateLimit, lastRateLimit, allowedAt, lsTransactions>>
    /\ UNCHANGED <<clock, today, appLoaded, transactions, calcVars, validationVars,
                   pendingCreate, processingTimers, completedTimers, nextId>>
    /\ mockTransactions' = <<>>
    /\ UNCHANGED registerResponse

(***************************************************************************)
(* AuthPage and RegisterForm                                               *)
(***************************************************************************)
\* onSwitchToRegister / onSwitchToLogin: AuthPage renders the other form,
\* which starts without errors
SwitchMode ==
    /\ appLoaded
    /\ authPage.mounted
    /\ authPage' = [authPage EXCEPT !.mode = IF @ = "login" THEN "register" ELSE "login",
                                    !.general = ""]
    /\ oneSecondTimers' = [i \in 1..Len(oneSecondTimers) |->
                              [oneSecondTimers[i] EXCEPT !.form = FALSE]]
    /\ UNCHANGED <<lsUsers, rateLimit, refreshCookie, lastRateLimit, allowedAt, lastLogin>>
    /\ UNCHANGED <<calcVars, ratesVars, storageVars, sessionVars, validationVars,
                   formVars, apiVars>>
    /\ UNCHANGED <<mockTransactions, registerResponse>>

\* the addresses and passwords a visitor registers with: the demo account's
\* address and a new one
RegisterInputs ==
    {<<"john.doe@example.com", "Secret1!">>, <<"Jane@example.com", "Secret1!">>}

\* handleSubmit of RegisterForm with a form that validates, up to the call of
\* apiService.register
RegisterSubmit ==
    /\ appLoaded
    /\ authPage.mounted
    /\ authPage.mode = "register"
    /\ auth' = [auth EXCEPT !.isLoading = TRUE]
    /\ \E input \in RegisterInputs :
          oneSecondTimers' =
              TimersAfter(auth', Append(oneSecondTimers,
                                        Timer("register", toLowerCase(input[1]), input[2],
                                              null, TRUE)))
    /\ authPage' = AuthPageAfter(auth', [authPage EXCEPT !.general = ""])
    /\ UNCHANGED <<lsUsers, rateLimit, refreshCookie, lastRateLimit, allowedAt, lastLogin>>
    /\ UNCHANGED <<today, appLoaded, transactions>>
    /\ UNCHANGED <<calcVars, ratesVars, storageVars, validationVars, formVars, apiVars>>
    /\ UNCHANGED <<mockTransactions, registerResponse>>

\* the oldest 1 s timeout fires: apiService.register returns and handleSubmit
\* of RegisterForm ends: on success onSwitchToLogin, on failure setErrors, on
\* the AuthPage and the form that submitted, and setLoading(false)
RegisterReturns ==
    /\ oneSecondTimers # <<>>
    /\ Head(oneSecondTimers).kind = "register"
    /\ LET timer    == Head(oneSecondTimers)
           response == RegisterResult(StoredUsers, timer.email, timer.password)
           page     == IF ~timer.form THEN authPage
                       ELSE IF response.success THEN [authPage EXCEPT !.mode = "login"]
                       ELSE [authPage EXCEPT !.general = response.message]
       IN  /\ lsUsers' = IF response.success
                         THEN [present |-> TRUE, list |-> response.list]
                         ELSE lsUsers
           /\ auth' = [auth EXCEPT !.isLoading = FALSE]
           /\ authPage' = AuthPageAfter(auth', page)
           /\ oneSecondTimers' = TimersAfter(auth', Tail(oneSecondTimers))
    /\ UNCHANGED <<rateLimit, refreshCookie, lastRateLimit, allowedAt, lastLogin>>
    /\ UNCHANGED <<today, appLoaded, transactions>>
    /\ UNCHANGED <<calcVars, ratesVars, storageVars, validationVars, formVars, apiVars>>
    /\ mockTransactions' = <<>>
    /\ UNCHANGED registerResponse

(***************************************************************************)
(* apiService.register called past the form                                *)
(***************************************************************************)
\* the addresses and passwords of such calls: the demo account's address and
\* a new one in two spellings
RegisterCalls ==
    {"john.doe@example.com", "jane@example.com", "Jane@example.com"}
        \X {"Secret1!", "Other2!"}

\* apiService.register(userData) is called and starts its 1 s wait; calls
\* may overlap
RegisterCall ==
    /\ appLoaded
    /\ Len(oneSecondTimers) < MaxTimers
    /\ \E input \in RegisterCalls :
          oneSecondTimers' =
              Append(oneSecondTimers, Timer("register call", input[1], input[2], null, FALSE))
    /\ UNCHANGED <<lsUsers, rateLimit, refreshCookie, lastRateLimit, allowedAt, lastLogin,
                   authPage>>
    /\ UNCHANGED <<calcVars, ratesVars, storageVars, sessionVars, validationVars,
                   formVars, apiVars, mockTransactions, registerResponse>>

\* the oldest 1 s timeout fires: the call reads wiremit_users, checks the
\* address, stores the new account and returns, all in one turn
RegisterCallReturns ==
    /\ oneSecondTimers # <<>>
    /\ Head(oneSecondTimers).kind = "register call"
    /\ LET timer    == Head(oneSecondTimers)
           response == RegisterResult(StoredUsers, timer.email, timer.password)
       IN  /\ lsUsers' = IF response.success
                         THEN [present |-> TRUE, list |-> response.list]
                         ELSE lsUsers
           /\ registerResponse' =
                 <<[success |-> response.success, code |-> response.code,
                    message |-> response.message]>>
    /\ oneSecondTimers' = Tail(oneSecondTimers)
    /\ UNCHANGED <<rateLimit, refreshCookie, lastRateLimit, allowedAt, lastLogin, authPage>>
    /\ UNCHANGED <<calcVars, ratesVars, storageVars, sessionVars, validationVars,
                   formVars, apiVars, mockTransactions>>

(***************************************************************************)
(* LogoutConfirmation, the store's logout; ProfileManagement               *)
(***************************************************************************)
\* handleLogout of the confirmation dialog, up to its 1 s wait; rememberChoice
\* is left unchecked, and the button is disabled while isLoggingOut
LogoutConfirm ==
    /\ appLoaded
    /\ Display(auth) = "dashboard"
    /\ ~HasTimer("logout")
    /\ oneSecondTimers' = Append(oneSecondTimers, Timer("logout", "", "", null, FALSE))
    /\ UNCHANGED <<lsUsers, rateLimit, refreshCookie, lastRateLimit, allowedAt, lastLogin, authPage>>
    /\ UNCHANGED <<calcVars, ratesVars, storageVars, sessionVars, validationVars,
                   formVars, apiVars>>
    /\ UNCHANGED <<mockTransactions, registerResponse>>

\* the oldest 1 s timeout fires: handleLogout calls onConfirm, the store's
\* logout; Index renders the AuthPage instead of the Dashboard
LogoutFires ==
    /\ oneSecondTimers # <<>>
    /\ Head(oneSecondTimers).kind = "logout"
    \* getTransactions (500 ms), called when the Dashboard was mounted, has
    \* returned
    /\ pendingLoads = <<>>
    /\ authToken' = FALSE
    /\ refreshCookie' = FALSE
    /\ lastLogin' = null
    /\ auth' = NoAuth
    /\ transactions' = <<>>
    /\ authPage' = AuthPageAfter(auth', authPage)
    /\ oneSecondTimers' = TimersAfter(auth', Tail(oneSecondTimers))
    /\ IF Display(auth) = "dashboard"
       THEN DashboardUnmounts
       ELSE UNCHANGED <<formData, errors, calculatedValues, showCalculation,
                        isSubmitting, calcTimers, pendingCreate>>
    /\ UNCHANGED <<lsUsers, rateLimit, lastRateLimit, allowedAt, currentUser,
                   lsTransactions, limitArgs>>
    /\ UNCHANGED <<today, appLoaded, pendingLoads, processingTimers, completedTimers,
                   nextId>>
    /\ UNCHANGED <<calcVars, ratesVars>>
    /\ mockTransactions' = <<>>
    /\ UNCHANGED registerResponse

\* handleProfileUpdate, up to its 1 s wait; the button is disabled while the
\* update is pending
ProfileUpdateSubmit ==
    /\ appLoaded
    /\ Display(auth) = "dashboard"
    /\ auth.user # null
    /\ ~DialogWaits
    /\ ~HasTimer("profile")
    /\ oneSecondTimers' = Append(oneSecondTimers, Timer("profile", "", "", auth.user, FALSE))
    /\ UNCHANGED <<lsUsers, rateLimit, refreshCookie, lastRateLimit, allowedAt, lastLogin, authPage>>
    /\ UNCHANGED <<calcVars, ratesVars, storageVars, sessionVars, validationVars,
                   formVars, apiVars>>
    /\ UNCHANGED <<mockTransactions, registerResponse>>

\* the oldest 1 s timeout fires: handleProfileUpdate calls setUser with the
\* user its render held, name and phone number replaced
ProfileUpdateReturns ==
    /\ oneSecondTimers # <<>>
    /\ Head(oneSecondTimers).kind = "profile"
    /\ pendingLoads = <<>>
    /\ auth' = [auth EXCEPT !.user = Head(oneSecondTimers).user]
    /\ authPage' = AuthPageAfter(auth', authPage)
    /\ oneSecondTimers' = TimersAfter(auth', Tail(oneSecondTimers))
    /\ UNCHANGED <<lsUsers, rateLimit, refreshCookie, lastRateLimit, allowedAt, lastLogin>>
    /\ UNCHANGED <<today, appLoaded, transactions>>
    /\ UNCHANGED <<calcVars, ratesVars, storageVars, validationVars, formVars, apiVars>>
    /\ UNCHANGED <<mockTransactions, registerResponse>>

(***************************************************************************)
(* The page is reloaded                                                    *)
(***************************************************************************)
\* a reload: browser storage stays, with it the rates the store persists;
\* the rest of the store, the components, the API cache and every pending
\* timeout and request are gone
Reload ==
    /\ appLoaded
    /\ appLoaded' = FALSE
    /\ auth' = NoAuth
    /\ transactions' = <<>>
    /\ cache' = <<>>
    /\ inFlight' = 0
    /\ ratesResponse' = NoResponse
    /\ formData' = EmptyForm
    /\ errors' = NoErrors
    /\ calculatedValues' = ZeroValues
    /\ showCalculation' = FALSE
    /\ isSubmitting' = FALSE
    /\ calcTimers' = <<>>
    /\ pendingCreate' = <<>>
    /\ pendingLoads' = <<>>
    /\ processingTimers' = <<>>
    /\ completedTimers' = <<>>
    /\ oneSecondTimers' = <<>>
    /\ authPage' = FreshAuthPage
    /\ lastRateLimit' = NoRateLimit
    /\ UNCHANGED <<clock, exchangeRates, ratesLastUpdated, today, limitArgs, nextId,
                   allowedAt, lastLogin, lsUsers, rateLimit, refreshCookie>>
    /\ UNCHANGED <<calcVars, storageVars>>
    /\ mockTransactions' = <<>>
    /\ UNCHANGED registerResponse

\* a minute passes while the page is open
MinutePasses ==
    /\ clock < MaxMinutes
    /\ clock' = clock + 1
    /\ UNCHANGED <<cache, inFlight, ratesResponse, exchangeRates, ratesLastUpdated>>
    /\ UNCHANGED <<calcVars, accountVars, storageVars, sessionVars, validationVars,
                   formVars, apiVars>>
    /\ UNCHANGED <<mockTransactions, registerResponse>>

(***************************************************************************)
(* TransactionHistory: loadMockTransactions and the simulated updates      *)
(***************************************************************************)
Statuses == {"completed", "processing", "pending", "failed", "cancelled"}

\* the 1 s wait of loadMockTransactions, started when the view mounted with
\* the Dashboard, is over: every mock transaction gets a random status
LoadMockTransactionsReturns ==
    /\ appLoaded
    /\ Display(auth) = "dashboard"
    /\ mockTransactions = <<>>
    /\ \E status \in [1..MaxHistory -> Statuses] :
          mockTransactions' =
              [i \in 1..MaxHistory |-> [id |-> "mock_tx_" \o ToString(i), status |-> status[i]]]
    /\ UNCHANGED <<calcVars, accountVars, ratesVars, storageVars, sessionVars,
                   validationVars, formVars, apiVars, registerResponse>>

\* a plausible slip: a pending transaction is completed at once
Updated_skipping(transaction, random) ==
    IF transaction.status = "processing" /\ random
    THEN [transaction EXCEPT !.status = "completed"]
    ELSE IF transaction.status = "pending" /\ random
    THEN [transaction EXCEPT !.status = "completed"]
    ELSE transaction

\* what updateTransactionStatuses maps a transaction to; random tells
\* whether Math.random() exceeded the threshold of the branch taken
Updated(transaction, random) ==
    IF transaction.status = "processing" /\ random
    THEN [transaction EXCEPT !.status = "completed"]
    ELSE IF transaction.status = "pending" /\ random
    THEN [transaction EXCEPT !.status = "processing"]
    ELSE transaction

\* the 15 s interval of the mounted view fires: updateTransactionStatuses
UpdateTransactionStatuses ==
    /\ appLoaded
    /\ Display(auth) = "dashboard"
    /\ \E random \in [1..Len(mockTransactions) -> BOOLEAN] :
          mockTransactions' =
              [i \in 1..Len(mockTransactions) |-> Updated(mockTransactions[i], random[i])]
    /\ UNCHANGED <<calcVars, accountVars, ratesVars, storageVars, sessionVars,
                   validationVars, formVars, apiVars, registerResponse>>

\* the days the page is open on after the first one: the next day and the
\* first day of the next month
LaterDays == {[StartDate EXCEPT !.d = @ + 1], [StartDate EXCEPT !.m = @ + 1, !.d = 1]}

\* midnight passes: new Date() is on a later day from now on
DayPasses ==
    /\ \E date \in LaterDays :
          /\ GetTime(At(date, 0)) > GetTime(At(today, 0))
          /\ today' = date
    /\ UNCHANGED <<appLoaded, auth, transactions>>
    /\ UNCHANGED <<calcVars, accountVars, ratesVars, storageVars, validationVars,
                   formVars, apiVars>>
    /\ UNCHANGED <<mockTransactions, registerResponse>>

(***************************************************************************)
(* The calculation functions applied to bounded inputs.                    *)
(***************************************************************************)
NoArgs ==
    [op |-> "none", amount |-> Num(0), destinationCountry |-> "UK",
     sourceAmount |-> Num(0), exchangeRate |-> Num(1), fee |-> Num(0),
     user |-> null, dailySpent |-> Num(0), monthlySpent |-> Num(0), input |-> <<>>]

FeeAmounts ==
    {Dec(k, 1000) : k \in 1..MaxMills}
        \cup {Num(10), Dec(10001, 1000), Dec(11, 10), Num(200), Num(500), Dec(12345, 100)}

FeeInputs ==
    {[NoArgs EXCEPT !.op = "calculateFee", !.amount = a, !.destinationCountry = c] :
        a \in FeeAmounts, c \in Destinations}

SmallAmounts == {Dec(k, 100) : k \in 0..MaxCents}

RateValues == {Dec(74, 100), Dec(1775, 100), Num(1), Dec(7431, 10000)}

FinalInputs ==
    {[NoArgs EXCEPT !.op = "calculateFinalAmount", !.sourceAmount = s,
                    !.exchangeRate = r, !.fee = f] :
        s \in SmallAmounts \cup {Num(100), Num(200)},
        r \in RateValues,
        f \in SmallAmounts \cup {Num(10), Num(40)}}

Users == {[id |-> "user_" \o t, tier |-> t] : t \in Tiers}

LimitAmounts ==
    {Dec(1, 2), Dec(99, 100), Num(1), Num(250), Dec(49999, 100), Num(500), Dec(50001, 100),
     Num(600), Num(2000), Dec(200001, 100), Num(10000), Dec(1000001, 100)}

DailyTotals ==
    {Num(0), Num(500), Dec(50001, 100), Num(600), Num(1000), Num(4500), Num(5000),
     Num(19500), Num(20000)}

MonthlyTotals ==
    {Num(0), Num(9500), Dec(950001, 100), Num(10000), Num(49500), Num(50000),
     Num(199500), Num(200000)}

ValidateInputs ==
    {[NoArgs EXCEPT !.op = "validateTransactionAmount", !.amount = a, !.user = u,
                    !.dailySpent = ds, !.monthlySpent = ms] :
        a \in LimitAmounts, u \in Users \cup {null}, ds \in DailyTotals, ms \in MonthlyTotals}

Alphabet == {"0", "1", "5", ".", "-", "a"}

RECURSIVE StringsUpTo(_)
StringsUpTo(k) ==
    IF k = 0 THEN {<<>>}
    ELSE LET shorter == StringsUpTo(k - 1)
         IN  shorter \cup {Append(s, c) : s \in shorter, c \in Alphabet}

ExampleStrings ==
    {<<"1", "2", "3", ".", "4", "5">>, <<"1", "2", ".", "3", "4", "5">>, <<"a", "b", "c">>,
     <<"1", ".", "2", ".", "3", "4", "5">>, <<"$", "1", ",", "0", "0", "0", ".", "5", "0">>,
     <<"2", "0", "0">>, <<"0", ".", "0", "0", "0">>}

ParseInputs ==
    {[NoArgs EXCEPT !.op = "parseAmount", !.input = s] :
        s \in StringsUpTo(MaxLen) \cup ExampleStrings}
(***************************************************************************)
(* Initial states                                                          *)
(***************************************************************************)
NotCalled == [op |-> "none"]

CalcIdle ==
    /\ args = NoArgs
    /\ called = FALSE
    /\ ret = Num(0)
    /\ retOther = NotCalled
    /\ calledAgain = FALSE
    /\ retAgain = Num(0)

RatesInit ==
    /\ clock = 0
    /\ cache = <<>>
    /\ inFlight = 0
    /\ ratesResponse = NoResponse
    /\ exchangeRates = null
    /\ ratesLastUpdated = <<>>

\* the send-money section and the API service as constructed
SectionInit ==
    /\ errors = NoErrors
    /\ limitArgs = NoLimitArgs
    /\ calculatedValues = ZeroValues
    /\ showCalculation = FALSE
    /\ isSubmitting = FALSE
    /\ calcTimers = <<>>
    /\ pendingCreate = <<>>
    /\ pendingLoads = <<>>
    /\ processingTimers = <<>>
    /\ completedTimers = <<>>
    /\ nextId = 1

\* the store and the form as constructed
AppInit ==
    /\ appLoaded = FALSE
    /\ auth = NoAuth
    /\ transactions = <<>>
    /\ formData = EmptyForm
    /\ SectionInit
    /\ authPage = FreshAuthPage
    /\ oneSecondTimers = <<>>
    /\ lastRateLimit = NoRateLimit
    /\ allowedAt = <<>>
    /\ mockTransactions = <<>>
    /\ registerResponse = <<>>

\* browser storage as a first visit finds it
FreshStorage ==
    /\ authToken = FALSE
    /\ refreshCookie = FALSE
    /\ currentUser = null
    /\ lsTransactions = [present |-> FALSE, list |-> <<>>]
    /\ lsUsers = NoUsers
    /\ rateLimit = <<>>
    /\ lastLogin = IF authToken THEN currentUser ELSE null

\* browser storage as an earlier visit without a login left it
VisitedStorage ==
    /\ authToken = FALSE
    /\ refreshCookie = FALSE
    /\ currentUser = MockUser
    /\ lsTransactions = [present |-> TRUE,
                         list |-> <<MockTransaction(0, "completed", <<StartDate>>)>>]
    /\ lsUsers = [present |-> TRUE, list |-> <<DemoAccount>>]
    /\ rateLimit = <<>>
    /\ lastLogin = IF authToken THEN currentUser ELSE null

(***************************************************************************)
(* SpecCalc: the calculation functions applied to bounded inputs.          *)
(***************************************************************************)
InitCalc ==
    /\ args \in FeeInputs \cup FinalInputs \cup ValidateInputs \cup ParseInputs
    /\ called = FALSE
    /\ ret = Num(0)
    /\ retOther = NotCalled
    /\ calledAgain = FALSE
    /\ retAgain = Num(0)
    /\ RatesInit
    /\ today = StartDate
    /\ FreshStorage
    /\ AppInit

otherThanCalc ==
    <<ratesVars, storageVars, sessionVars, validationVars, formVars, apiVars, accountVars,
      mockTransactions, registerResponse>>

CallCalculateFee ==
    /\ ~called
    /\ args.op = "calculateFee"
    /\ ret' = calculateFee(args.amount, args.destinationCountry)
    /\ called' = TRUE
    /\ UNCHANGED <<args, retOther, calledAgain, retAgain, otherThanCalc>>

CallCalculateFinalAmount ==
    /\ ~called
    /\ args.op = "calculateFinalAmount"
    /\ ret' = calculateFinalAmount(args.sourceAmount, args.exchangeRate, args.fee)
    /\ called' = TRUE
    /\ UNCHANGED <<args, retOther, calledAgain, retAgain, otherThanCalc>>

CallValidateTransactionAmount ==
    /\ ~called
    /\ args.op = "validateTransactionAmount"
    /\ ret' = validateTransactionAmount(args.amount, args.user, args.dailySpent,
                                        args.monthlySpent)
    /\ called' = TRUE
    /\ UNCHANGED <<args, retOther, calledAgain, retAgain, otherThanCalc>>

CallParseAmount ==
    /\ ~called
    /\ args.op = "parseAmount"
    /\ ret' = parseAmount(args.input)
    /\ called' = TRUE
    /\ UNCHANGED <<args, retOther, calledAgain, retAgain, otherThanCalc>>

NextCalc ==
    \/ CallCalculateFee
    \/ CallCalculateFinalAmount
    \/ CallValidateTransactionAmount
    \/ CallParseAmount

SpecCalc == InitCalc /\ [][NextCalc]_vars

(***************************************************************************)
(* SpecRates: the exchange-rate provider.  The send-money section is       *)
(* mounted again and again (the session that mounts it is left out), the   *)
(* fetches settle with any outcome, and time passes.                       *)
(***************************************************************************)
InitRates ==
    /\ CalcIdle
    /\ RatesInit
    /\ today = StartDate
    /\ FreshStorage
    /\ AppInit

NextRates ==
    \/ MountLoadExchangeRates
    \/ FetchExchangeRatesSettles
    \/ Tick

SpecRates == InitRates /\ [][NextRates]_vars

(***************************************************************************)
(* SpecLimits: validateForm applied to bounded snapshots of the store.     *)
(***************************************************************************)
\* the days transactions were created on: today, the day before, a month
\* before, and the same day a year before
LimitDates ==
    {StartDate, [StartDate EXCEPT !.d = @ - 1], [StartDate EXCEPT !.m = @ - 1],
     [StartDate EXCEPT !.y = @ - 1]}

StoredTransaction(user, date, status, amount) ==
    [id |-> "id_0", userId |-> user.id,
     destinationCountry |-> "UK", currency |-> "GBP",
     sourceAmount |-> amount, exchangeRate |-> Dec(74, 100),
     fee |-> calculateFee(amount, "UK"),
     finalAmount |-> calculateFinalAmount(amount, Dec(74, 100), calculateFee(amount, "UK")),
     status |-> status, createdAt |-> At(date, 0),
     completedAt |-> IF status = "completed" THEN <<date>> ELSE <<>>]

StoredTransactionPool ==
    {StoredTransaction(u, dt, st, a) :
        u \in SessionUsers, dt \in LimitDates, st \in {"completed", "pending"},
        a \in {Num(100), Dec(25050, 100)}}

RECURSIVE ListsUpTo(_, _)
ListsUpTo(pool, k) ==
    IF k = 0 THEN {<<>>}
    ELSE LET shorter == ListsUpTo(pool, k - 1)
         IN  shorter \cup {Append(l, t) : l \in shorter, t \in pool}

\* a signed-in user, the store's list and a filled form, as validateForm
\* finds them
InitLimits ==
    /\ CalcIdle
    /\ RatesInit
    /\ FreshStorage
    /\ today = StartDate
    /\ appLoaded = TRUE
    /\ \E u \in SessionUsers :
          auth = [NoAuth EXCEPT !.user = u, !.isAuthenticated = TRUE]
    /\ authPage = NoAuthPage
    /\ oneSecondTimers = <<>>
    /\ lastRateLimit = NoRateLimit
    /\ allowedAt = <<>>
    /\ mockTransactions = <<>>
    /\ registerResponse = <<>>
    /\ transactions \in ListsUpTo(StoredTransactionPool, MaxStored)
    /\ \E a \in FormAmounts :
          formData = [amount |-> a, destinationCountry |-> "UK", recipientName |-> "John Doe"]
    /\ SectionInit

NextLimits == ValidateForm

SpecLimits == InitLimits /\ [][NextLimits]_vars

(***************************************************************************)
(* Spec: one page visit with a restored session: the dashboard loads the   *)
(* user's transactions and the rates, the user edits and submits the       *)
(* send-money form, and the timeouts fire.                                 *)
(***************************************************************************)
Init ==
    /\ CalcIdle
    /\ RatesInit
    /\ today = StartDate
    /\ authToken \in BOOLEAN
    /\ refreshCookie = authToken
    /\ lastLogin \in IF authToken THEN SessionUsers ELSE {null}
    /\ currentUser \in IF authToken THEN {lastLogin, null} ELSE SessionUsers \cup {null}
    /\ lsTransactions = [present |-> FALSE, list |-> <<>>]
    /\ lsUsers = NoUsers
    /\ rateLimit = <<>>
    /\ AppInit

Next ==
    \/ IndexMount
    \/ GetTransactionsReturns
    \/ FetchNumericRatesSettles
    \/ HandleChangeAmount
    \/ HandleChangeDestination
    \/ HandleChangeRecipientName
    \/ CalculationTimerFires
    \/ HandleSubmit
    \/ CreateTransactionReturns
    \/ ProcessingTimerFires
    \/ CompletedTimerFires

Spec == Init /\ [][Next]_vars

(***************************************************************************)
(* SpecForm: the calculation of the send-money form.  A page visit         *)
(* restores the session, the dashboard loads the transactions and the      *)
(* rates, the user edits the amount and the destination, and the           *)
(* calculation timeouts fire.                                              *)
(***************************************************************************)
NextForm ==
    \/ IndexMount
    \/ GetTransactionsReturns
    \/ FetchNumericRatesSettles
    \/ HandleChangeAmount
    \/ HandleChangeDestination
    \/ CalculationTimerFires

SpecForm == Init /\ [][NextForm]_vars

(***************************************************************************)
(* SpecRepeat: a calculation function is applied to the same arguments     *)
(* twice.  In between the page restores the session, loads transactions    *)
(* and rates (store and cache change), time passes, and a function is      *)
(* applied to other arguments.                                             *)
(***************************************************************************)
\* the function args.op names, applied to a
Apply(a) ==
    CASE a.op = "calculateFee" -> calculateFee(a.amount, a.destinationCountry)
      [] a.op = "calculateFinalAmount" ->
            calculateFinalAmount(a.sourceAmount, a.exchangeRate, a.fee)
      [] a.op = "validateTransactionAmount" ->
            validateTransactionAmount(a.amount, a.user, a.dailySpent, a.monthlySpent)
      [] a.op = "parseAmount" -> parseAmount(a.input)

RepeatInputs ==
    {a \in FeeInputs : a.amount \in {Dec(1, 1000), Dec(55, 1000)}}
      \cup {a \in FinalInputs : a.sourceAmount = Num(200) /\ a.fee = Num(40)}
      \cup {a \in ValidateInputs : /\ a.amount \in {Num(1), Num(600)}
                                    /\ a.dailySpent \in {Num(0), Num(500)}
                                    /\ a.monthlySpent = Num(0)}
      \cup {a \in ParseInputs : a.input \in ExampleStrings}

\* the arguments of the calls made in between
OtherInputs ==
    {a \in RepeatInputs : \/ a.op = "calculateFee" /\ a.amount = Dec(55, 1000)
                          \/ a.op = "validateTransactionAmount" /\ a.user = null
                          \/ a.op = "parseAmount" /\ a.input = <<"a", "b", "c">>}

InitRepeat ==
    /\ args \in RepeatInputs
    /\ called = FALSE
    /\ ret = Num(0)
    /\ retOther = NotCalled
    /\ calledAgain = FALSE
    /\ retAgain = Num(0)
    /\ RatesInit
    /\ today = StartDate
    /\ authToken \in BOOLEAN
    /\ refreshCookie = authToken
    /\ lastLogin \in IF authToken THEN SessionUsers ELSE {null}
    /\ currentUser \in IF authToken THEN {lastLogin, null} ELSE SessionUsers \cup {null}
    /\ lsTransactions = [present |-> FALSE, list |-> <<>>]
    /\ lsUsers = NoUsers
    /\ rateLimit = <<>>
    /\ AppInit

\* the first application to args
CallFirst ==
    /\ ~called
    /\ ret' = Apply(args)
    /\ called' = TRUE
    /\ UNCHANGED <<args, retOther, calledAgain, retAgain, otherThanCalc>>

\* an application to other arguments after the first
CallOther ==
    /\ called
    /\ ~calledAgain
    /\ retOther = NotCalled
    /\ \E a \in OtherInputs \ {args} : retOther' = [op |-> a.op, value |-> Apply(a)]
    /\ UNCHANGED <<args, called, ret, calledAgain, retAgain, otherThanCalc>>

\* the second application to args
CallAgain ==
    /\ called
    /\ ~calledAgain
    /\ retAgain' = Apply(args)
    /\ calledAgain' = TRUE
    /\ UNCHANGED <<args, called, ret, retOther, otherThanCalc>>

NextRepeat ==
    \/ CallFirst
    \/ CallOther
    \/ CallAgain
    \/ IndexMount
    \/ GetTransactionsReturns
    \/ FetchNumericRatesSettles
    \/ Tick

SpecRepeat == InitRepeat /\ [][NextRepeat]_vars

(***************************************************************************)
(* SpecLogin: a visit on which logins are attempted, with right and wrong  *)
(* credentials, while minutes pass.                                        *)
(***************************************************************************)
InitLogin ==
    /\ CalcIdle
    /\ RatesInit
    /\ today = StartDate
    /\ VisitedStorage
    /\ AppInit

NextLogin ==
    \/ IndexMount
    \/ LoginSubmit
    \/ LoginReturns
    \/ MinutePasses

SpecLogin == InitLogin /\ [][NextLogin]_vars

(***************************************************************************)
(* SpecSession: a visit of a browser in which two accounts are registered: *)
(* users log in, send money, update their profile and log out.             *)
(***************************************************************************)
\* wiremit_users after the registration of a second account
TwoAccounts ==
    <<DemoAccount,
      [email |-> "jane@example.com", password |-> "Secret1!", user |-> RegisteredUser,
       isVerified |-> FALSE, mfaEnabled |-> FALSE]>>

\* the store as rehydrated from what an earlier visit persisted
PersistedRates ==
    /\ clock = 0
    /\ cache = <<>>
    /\ inFlight = 0
    /\ ratesResponse = NoResponse
    /\ exchangeRates = DefaultRates
    /\ ratesLastUpdated = <<0>>

InitSession ==
    /\ CalcIdle
    /\ PersistedRates
    /\ today = StartDate
    /\ authToken = FALSE
    /\ refreshCookie = FALSE
    /\ currentUser = MockUser
    /\ lsTransactions = [present |-> TRUE, list |-> <<>>]
    /\ lsUsers = [present |-> TRUE, list |-> TwoAccounts]
    /\ rateLimit = <<>>
    /\ lastLogin = IF authToken THEN currentUser ELSE null
    /\ AppInit

NextSession ==
    \/ IndexMount
    \/ LoginSubmit
    \/ LoginReturns
    \/ LogoutConfirm
    \/ LogoutFires
    \/ ProfileUpdateSubmit
    \/ ProfileUpdateReturns
    \/ GetTransactionsReturns
    \/ HandleChangeAmount
    \/ HandleChangeDestination
    \/ HandleChangeRecipientName
    \/ CalculationTimerFires
    \/ HandleSubmit
    \/ CreateTransactionReturns

SpecSession == InitSession /\ [][NextSession]_vars

(***************************************************************************)
(* SpecRestore: the page is loaded and reloaded with whatever the browser  *)
(* holds; users log in and out in between.                                 *)
(***************************************************************************)
InitRestore ==
    /\ CalcIdle
    /\ PersistedRates
    /\ today = StartDate
    /\ authToken \in BOOLEAN
    /\ refreshCookie = authToken
    /\ lastLogin \in IF authToken THEN SessionUsers ELSE {null}
    /\ currentUser \in IF authToken THEN {lastLogin, null} ELSE SessionUsers \cup {null}
    /\ lsTransactions = [present |-> TRUE,
                         list |-> <<MockTransaction(0, "completed", <<StartDate>>)>>]
    /\ lsUsers \in {NoUsers, [present |-> TRUE, list |-> TwoAccounts]}
    /\ rateLimit = <<>>
    /\ AppInit

NextRestore ==
    \/ IndexMount
    \/ Reload
    \/ LoginSubmit
    \/ LoginReturns
    \/ LogoutConfirm
    \/ LogoutFires
    \/ GetTransactionsReturns

SpecRestore == InitRestore /\ [][NextRestore]_vars

(***************************************************************************)
(* SpecLive: a visit of the logged-in demo user who sends money; timeouts  *)
(* that are set fire, and calls that are made return.                      *)
(***************************************************************************)
InitLive ==
    /\ CalcIdle
    /\ PersistedRates
    /\ today = StartDate
    /\ authToken = TRUE
    /\ refreshCookie = TRUE
    /\ lastLogin = MockUser
    /\ currentUser = MockUser
    /\ lsTransactions = [present |-> TRUE,
                         list |-> <<MockTransaction(0, "completed", <<StartDate>>)>>]
    /\ lsUsers = [present |-> TRUE, list |-> <<DemoAccount>>]
    /\ rateLimit = <<>>
    /\ AppInit

NextLive ==
    \/ IndexMount
    \/ GetTransactionsReturns
    \/ HandleChangeAmount
    \/ HandleChangeDestination
    \/ HandleChangeRecipientName
    \/ CalculationTimerFires
    \/ HandleSubmit
    \/ CreateTransactionReturns
    \/ ProcessingTimerFires
    \/ CompletedTimerFires

\* the browser runs the effect of Index, fires every timeout that is set and
\* completes every call; the user need not do anything.  The 800 ms timeouts
\* are enabled exactly while calcTimers is not empty and no load is pending,
\* so their weak fairness is written out.
Fairness ==
    /\ WF_vars(IndexMount)
    /\ WF_vars(GetTransactionsReturns)
    /\ []<>(calcTimers = <<>> \/ pendingLoads # <<>>) \/ []<><<CalculationTimerFires>>_vars
    /\ WF_vars(CreateTransactionReturns)
    /\ WF_vars(ProcessingTimerFires)
    /\ WF_vars(CompletedTimerFires)

SpecLive == InitLive /\ [][NextLive]_vars /\ Fairness

(***************************************************************************)
(* SpecForms: visits on which accounts are registered and logins are       *)
(* attempted, with right and wrong credentials; the page is reloaded.      *)
(***************************************************************************)
InitForms ==
    /\ CalcIdle
    /\ PersistedRates
    /\ today = StartDate
    /\ VisitedStorage
    /\ AppInit

NextForms ==
    \/ IndexMount
    \/ Reload
    \/ SwitchMode
    \/ RegisterSubmit
    \/ RegisterReturns
    \/ LoginSubmit
    \/ LoginReturns

SpecForms == InitForms /\ [][NextForms]_vars

(***************************************************************************)
(* SpecSpend: the registered user, whose earlier transfers have brought    *)
(* the day's or the month's total close to the limit, logs in, sends money *)
(* again and reloads the page, while days pass.                            *)
(***************************************************************************)
\* a record createTransaction stored on an earlier visit
EarlierTransaction(k, date, amount) ==
    [StoredTransaction(RegisteredUser, date, "completed", amount)
        EXCEPT !.id = "old_" \o ToString(k)]

\* four transfers of 200 made today: 800 of the daily 1000
DailyHistory == [k \in 1..4 |-> EarlierTransaction(k, StartDate, Num(200))]

\* two transfers on each of the first ten days of the month, 9900 of the
\* monthly 10000, newest first
MonthlyHistory ==
    [k \in 1..20 |->
        EarlierTransaction(k, [StartDate EXCEPT !.d = 10 - ((k - 1) \div 2)],
                           IF k = 1 THEN Num(400) ELSE Num(500))]

\* the login rate limit as earlier attempts of this window left it: one
\* attempt remains
OneAttemptLeft == <<[count |-> LoginAttempts - 1, resetTime |-> LoginWindow]>>

InitSpend ==
    /\ CalcIdle
    /\ PersistedRates
    /\ today = StartDate
    /\ authToken = FALSE
    /\ refreshCookie = FALSE
    /\ currentUser = RegisteredUser
    /\ lsTransactions \in {[present |-> TRUE, list |-> h] : h \in {DailyHistory, MonthlyHistory}}
    /\ lsUsers = [present |-> TRUE, list |-> TwoAccounts]
    /\ rateLimit = OneAttemptLeft
    /\ lastLogin = null
    /\ AppInit

NextSpend ==
    \/ IndexMount
    \/ Reload
    \/ LoginSubmit
    \/ LoginReturns
    \/ GetTransactionsReturns
    \/ HandleChangeAmount
    \/ HandleChangeDestination
    \/ HandleChangeRecipientName
    \/ CalculationTimerFires
    \/ HandleSubmit
    \/ CreateTransactionReturns
    \/ DayPasses

SpecSpend == InitSpend /\ [][NextSpend]_vars

(***************************************************************************)
(* SpecStatus: the logged-in demo user sends money and reloads the page    *)
(* while the status timeouts and the history view's interval run.          *)
(***************************************************************************)
NextStatus ==
    \/ IndexMount
    \/ Reload
    \/ GetTransactionsReturns
    \/ HandleChangeAmount
    \/ HandleChangeDestination
    \/ HandleChangeRecipientName
    \/ CalculationTimerFires
    \/ HandleSubmit
    \/ CreateTransactionReturns
    \/ ProcessingTimerFires
    \/ CompletedTimerFires
    \/ LoadMockTransactionsReturns
    \/ UpdateTransactionStatuses

SpecStatus == InitLive /\ [][NextStatus]_vars

(***************************************************************************)
(* SpecRegister: accounts are registered by calls that may overlap.        *)
(***************************************************************************)
NextRegister ==
    \/ IndexMount
    \/ RegisterCall
    \/ RegisterCallReturns

SpecRegister == InitForms /\ [][NextRegister]_vars

(***************************************************************************)
(* Properties of the calculation functions (checked under SpecCalc).       *)
(***************************************************************************)
Cent == Dec(1, 100)

\* x is a whole number of cents
IsWholeCents(x) == Times(x, Num(100)).d = 1

\* C1: for every amount a > 0 the fee returned by calculateFee is a * p%
\* rounded up to the next whole cent, where p is the feePercentage COUNTRIES
\* binds to the destination (UK 10, South Africa 20): it is a whole number of
\* cents, never below the exact percentage, less than one cent above it, and
\* not negative.
C1_FeeRoundedUp ==
    (called /\ args.op = "calculateFee" /\ Gt(args.amount, Num(0))) =>
        LET p     == COUNTRIES[args.destinationCountry].feePercentage
            exact == Over(Times(args.amount, Num(p)), Num(100))
        IN  /\ p = (IF args.destinationCountry = "UK" THEN 10 ELSE 20)
            /\ IsWholeCents(ret)
            /\ Le(exact, ret)
            /\ Lt(Minus(ret, exact), Cent)
            /\ Le(Num(0), ret)
            /\ (args.amount = Num(10) /\ args.destinationCountry = "UK") => ret = Num(1)

\* calculateFee(10.001, UK) has been applied and returned 1.01
C1_Witness ==
    /\ called
    /\ args.op = "calculateFee"
    /\ args.amount = Dec(10001, 1000)
    /\ args.destinationCountry = "UK"
    /\ ret = Dec(101, 100)

LimitText ==
    [t \in Tiers |->
        CASE t = "basic" ->
               [min |-> "$1.00", max |-> "$500.00",
                daily |-> "$1,000.00", monthly |-> "$10,000.00"]
          [] t = "premium" ->
               [min |-> "$1.00", max |-> "$2,000.00",
                daily |-> "$5,000.00", monthly |-> "$50,000.00"]
          [] t = "enterprise" ->
               [min |-> "$1.00", max |-> "$10,000.00",
                daily |-> "$20,000.00", monthly |-> "$200,000.00"]]

\* the checks of validateTransactionAmount that fail for a present user, in
\* the order BelowMinimum, AboveMaximum, DailyLimitExceeded, MonthlyLimitExceeded
FailedChecks(a) ==
    LET limits == TRANSACTION_LIMITS[a.user.tier]
    IN  <<Lt(a.amount, limits.perTransaction.min),
          Gt(a.amount, limits.perTransaction.max),
          Gt(Plus(a.dailySpent, a.amount), limits.daily),
          Gt(Plus(a.monthlySpent, a.amount), limits.monthly)>>

FailureMessages(tier) ==
    <<"Minimum transfer amount is " \o LimitText[tier].min,
      "Maximum transfer amount is " \o LimitText[tier].max,
      "Daily limit of " \o LimitText[tier].daily \o " would be exceeded",
      "Monthly limit of " \o LimitText[tier].monthly \o " would be exceeded">>

\* C4: validateTransactionAmount reports exactly one failure, the first in
\* the order Unauthenticated, BelowMinimum, AboveMaximum, DailyLimitExceeded,
\* MonthlyLimitExceeded, even when later checks fail too, and the message of
\* a limit failure names the threshold of the failing check for the tier.
C4_FirstFailureReported ==
    (called /\ args.op = "validateTransactionAmount") =>
        IF args.user = null
        THEN ret = [isValid |-> FALSE, error |-> "User not authenticated"]
        ELSE LET failed == FailedChecks(args)
                 which  == {i \in 1..4 : failed[i]}
             IN  which # {} =>
                    LET first == CHOOSE i \in which : \A j \in which : i <= j
                    IN  ret = [isValid |-> FALSE,
                               error |-> FailureMessages(args.user.tier)[first]]

\* a basic user asks for 600 with 600 already spent today: the maximum and
\* the daily limit are both violated and the maximum is the one reported
C4_Witness ==
    /\ called
    /\ args.op = "validateTransactionAmount"
    /\ args.user # null
    /\ args.user.tier = "basic"
    /\ args.amount = Num(600)
    /\ args.dailySpent = Num(600)
    /\ ret.error = "Maximum transfer amount is $500.00"

\* C5: validateTransactionAmount returns valid exactly when a user is present
\* and min <= amount <= max, dailySpent + amount <= daily and
\* monthlySpent + amount <= monthly for the user's tier, all bounds inclusive.
C5_ValidIffWithinLimits ==
    (called /\ args.op = "validateTransactionAmount") =>
        (ret.isValid <=>
            /\ args.user # null
            /\ LET limits == TRANSACTION_LIMITS[args.user.tier]
               IN  /\ Le(limits.perTransaction.min, args.amount)
                   /\ Le(args.amount, limits.perTransaction.max)
                   /\ Le(Plus(args.dailySpent, args.amount), limits.daily)
                   /\ Le(Plus(args.monthlySpent, args.amount), limits.monthly))

\* a basic user asks for exactly the per-transaction maximum 500, which brings
\* the daily total exactly to 1000 and the monthly total exactly to 10000
C5_Witness ==
    /\ called
    /\ args.op = "validateTransactionAmount"
    /\ args.user # null
    /\ args.user.tier = "basic"
    /\ args.amount = Num(500)
    /\ args.dailySpent = Num(500)
    /\ args.monthlySpent = Num(9500)
    /\ ret.isValid

\* s is digits, optionally followed by '.' and one or two digits
IsNumeral2(s) ==
    LET i == DigitRun(s)
        j == IF i < Len(s) THEN DigitRun(SubSeq(s, i + 2, Len(s))) ELSE 0
    IN  /\ i >= 1
        /\ \/ i = Len(s)
           \/ s[i + 1] = "." /\ j \in {1, 2} /\ i + 1 + j = Len(s)

\* the value of a numeral: its digits without the '.', scaled by the number
\* of digits that follow the '.'
NumeralValue(s) ==
    LET k == IndexOf(s, ".")
    IN  IF k = 0 THEN Num(DigitsValue(s))
        ELSE Dec(DigitsValue(SelectSeq(s, LAMBDA c : c # ".")), Pow10(Len(s) - k))

\* C6 (as stated): parseAmount of a negative input such as "-5" fails with
\* NonPositive, so a negative amount is never accepted as a positive one.
C6_NegativeRejected ==
    (called /\ args.op = "parseAmount" /\ args.input # <<>> /\ Head(args.input) = "-"
        /\ IsNumeral2(Tail(args.input))) =>
            /\ ret.isValid = FALSE
            /\ ret.error = "Amount must be greater than zero"

\* C7: for every string that is a positive decimal numeral with at most two
\* fractional digits parseAmount returns isValid = true and the numeral's
\* value, unrounded.
C7_NumeralRoundTrip ==
    (called /\ args.op = "parseAmount" /\ IsNumeral2(args.input)
        /\ Gt(NumeralValue(args.input), Num(0))) =>
            ret = [amount |-> NumeralValue(args.input), isValid |-> TRUE,
                   error |-> undefined]

\* parseAmount("123.45") has been applied and returned (123.45, true)
C7_Witness ==
    /\ called
    /\ args.op = "parseAmount"
    /\ args.input = <<"1", "2", "3", ".", "4", "5">>
    /\ ret.isValid
    /\ ret.amount = Dec(12345, 100)

\* the cleaned string starts with a number: a digit, or '.' and a digit
StartsWithNumber(s) ==
    /\ s # <<>>
    /\ \/ s[1] \in DigitChars
       \/ s[1] = "." /\ Len(s) >= 2 /\ s[2] \in DigitChars

\* the number of digits that directly follow the first '.'
FractionDigits(s) ==
    LET k == IndexOf(s, ".")
    IN  IF k = 0 THEN 0 ELSE DigitRun(SubSeq(s, k + 1, Len(s)))

WellFormedTable(t) ==
    /\ DOMAIN t = CurrencyCodes
    /\ \A c \in CurrencyCodes : IsNumber(t[c]) /\ ~isNaN(t[c]) /\ Gt(t[c], Num(0))
    /\ t["USD"] = Num(1)

\* C9 (as stated): every rate table getExchangeRates returns with
\* success = true, and so every table setExchangeRates stores, has the four
\* currencies USD, GBP, ZAR, USDT with positive numeric rates and USD = 1,
\* whatever items the remote endpoint returned.
C9_RateTableWellFormed ==
    /\ ratesResponse.success => WellFormedTable(ratesResponse.data)
    /\ exchangeRates # null => WellFormedTable(exchangeRates)

\* the settlement currency the specification gives for a destination
SettlementCurrency(d) == IF d = "UK" THEN "GBP" ELSE "ZAR"

\* C3: the send-money calculation is a fixed pipeline.  A calculation is
\* scheduled for the parsed amount a, the destination d and the rate table of
\* the form it was started from, and when it completes the form shows the
\* rate of d's settlement currency from that table, fee = calculateFee(a, d)
\* and final = calculateFinalAmount(a, rate, fee); for a = 200, d = South
\* Africa and ZAR = 17.75 it shows fee 40.00 and final amount 2840.00.
C3_CalculationPipeline ==
    [][/\ Len(calcTimers') = Len(calcTimers) + 1 =>
            LET scheduled == calcTimers'[Len(calcTimers')]
            IN  /\ parseAmount(formData'.amount).isValid
                /\ scheduled.amount = parseAmount(formData'.amount).amount
                /\ scheduled.destination = formData'.destinationCountry
                /\ scheduled.exchangeRates = exchangeRates'
       /\ (calcTimers # <<>> /\ calcTimers' = Tail(calcTimers)) =>
            LET a    == Head(calcTimers).amount
                d    == Head(calcTimers).destination
                rate == Head(calcTimers).exchangeRates[SettlementCurrency(d)]
                fee  == calculateFee(a, d)
            IN  /\ showCalculation'
                /\ ~calculatedValues'.isCalculating
                /\ calculatedValues'.exchangeRate = rate
                /\ calculatedValues'.fee = fee
                /\ calculatedValues'.finalAmount = calculateFinalAmount(a, rate, fee)
                /\ (a = Num(200) /\ d = "South Africa" /\ rate = Dec(1775, 100)) =>
                       /\ calculatedValues'.fee = Num(40)
                       /\ calculatedValues'.finalAmount = Num(2840)]_vars

\* the form shows the calculation of 200 to South Africa at ZAR = 17.75
C3_Witness ==
    /\ formData.amount = <<"2", "0", "0">>
    /\ formData.destinationCountry = "South Africa"
    /\ exchangeRates # null
    /\ exchangeRates["ZAR"] = Dec(1775, 100)
    /\ calcTimers = <<>>
    /\ showCalculation
    /\ calculatedValues = [fee |-> Num(40), exchangeRate |-> Dec(1775, 100),
                           finalAmount |-> Num(2840), isCalculating |-> FALSE]

\* the transactions of the list that belong to the user, are completed and
\* were created in the period of now that sameperiod tells
CompletedInPeriod(list, user, now, SamePeriod(_, _)) ==
    SelectSeq(list, LAMBDA t : /\ t.userId = user.id
                               /\ t.status = "completed"
                               /\ SamePeriod(t.createdAt, now))

SameCalendarDay(createdAt, now) ==
    createdAt.y = now.y /\ createdAt.m = now.m /\ createdAt.d = now.d

SameCalendarMonth(createdAt, now) == createdAt.y = now.y /\ createdAt.m = now.m

\* C10: the spend totals handed to the limit check are the sums of the
\* source amounts of the authenticated user's completed transactions created
\* on the current calendar day (dailySpent) and in the current calendar month
\* of the current year (monthlySpent); transactions of other users, of other
\* days or months, and transactions that are not completed do not count.
C10_SpendTotalsOfCompleted ==
    (limitArgs.passed /\ auth.user # null) =>
        /\ limitArgs.dailySpent =
              SumSourceAmount(CompletedInPeriod(transactions, auth.user, today, SameCalendarDay))
        /\ limitArgs.monthlySpent =
              SumSourceAmount(CompletedInPeriod(transactions, auth.user, today,
                                                SameCalendarMonth))

C12_LimitsWellFormed ==
    /\ \A t \in {"basic", "premium", "enterprise"} :
            LET limits == TRANSACTION_LIMITS[t]
            IN  /\ Le(limits.perTransaction.min, limits.perTransaction.max)
                /\ Le(Num(0), limits.perTransaction.min)
                /\ Le(Num(0), limits.perTransaction.max)
                /\ Le(Num(0), limits.daily)
                /\ Le(Num(0), limits.monthly)
    /\ (called /\ args.op = "validateTransactionAmount" /\ args.user # null
            /\ ret.isValid) =>
         LET limits == TRANSACTION_LIMITS[args.user.tier]
         IN  /\ Le(limits.perTransaction.min, args.amount)
             /\ Le(args.amount, limits.perTransaction.max)

\* the limit check has accepted an amount of a premium user: an amount
\* between that tier's min and max exists
C12_Witness ==
    /\ called
    /\ args.op = "validateTransactionAmount"
    /\ args.user # null
    /\ args.user.tier = "premium"
    /\ ret.isValid
    /\ Le(TRANSACTION_LIMITS["premium"].perTransaction.min, args.amount)
    /\ Le(args.amount, TRANSACTION_LIMITS["premium"].perTransaction.max)

\* a step that makes an exchange-rate request: time stands still and no
\* fetch settles
RatesRequested == clock' = clock /\ inFlight' >= inFlight /\ ratesVars' # ratesVars

\* C13: the cache serves a stored exchange-rate response only while its age
\* is strictly less than its TTL of 5 minutes; a request made when the age
\* has reached the TTL deletes the entry and starts a new fetch; and only
\* successful responses are stored, so every entry has success = true.
C13_CacheTTL ==
    /\ [](cache # <<>> => cache[1].data.success /\ cache[1].ttl = 5)
    /\ [][RatesRequested =>
            IF cache # <<>> /\ clock - cache[1].timestamp < 5
            THEN /\ cache' = cache
                 /\ inFlight' = inFlight
                 /\ ratesResponse' = getExchangeRatesResult(cache[1].data, clock)
            ELSE /\ cache' = <<>>
                 /\ inFlight' = inFlight + 1]_vars

\* the cache holds an entry whose age has reached the TTL exactly, and a
\* request can be made
C13_Witness ==
    /\ cache # <<>>
    /\ clock - cache[1].timestamp = 5
    /\ cache[1].data.success
    /\ exchangeRates = null
    /\ inFlight < MaxInFlight

\* a step in which getExchangeRates returns a failure
RatesFailureReturned == ratesResponse' # ratesResponse /\ ~ratesResponse'.success

\* C14: getExchangeRates never throws: after a network error, a non-OK
\* status or a malformed body it returns success = false with the code
\* EXCHANGE_RATES_ERROR and no data, the rate table and ratesLastUpdated of
\* the store stay as they were, and the failure is not cached: the call that
\* follows a failed one fetches again.
C14_FailureNotCached ==
    /\ [](~ratesResponse.success /\ ratesResponse # NoResponse =>
             /\ ratesResponse.error.code = "EXCHANGE_RATES_ERROR"
             /\ ratesResponse.data = NoData)
    /\ [][RatesFailureReturned =>
             /\ exchangeRates' = exchangeRates
             /\ ratesLastUpdated' = ratesLastUpdated]_vars
    /\ [][(~ratesResponse.success /\ ratesResponse # NoResponse /\ RatesRequested) =>
             inFlight' = inFlight + 1]_vars

(***************************************************************************)
(* Properties of the login rate limit (checked under SpecLogin).           *)
(***************************************************************************)
\* the stored counter and reset time change although the attempt was denied
DeniedAttemptCounted == rateLimit' # rateLimit /\ ~lastRateLimit'.allowed

\* the stored counter restarts
CounterRestarts ==
    /\ rateLimit # <<>>
    /\ rateLimit' # rateLimit
    /\ rateLimit'[1].count <= rateLimit[1].count

\* C15: login is limited to 5 attempts per 15 minutes: of any 6 submissions
\* that pass checkRateLimit and reach apiService.login, the last is at least
\* 15 minutes after the first; a denied attempt changes neither the stored
\* counter nor the reset time; and the counter restarts only once the
\* current time has reached the stored reset time.
C15_LoginRateLimit ==
    /\ [](Len(allowedAt) = MaxAllowed
            => allowedAt[MaxAllowed] - allowedAt[1] >= LoginWindow)
    /\ [][~DeniedAttemptCounted]_vars
    /\ [][CounterRestarts => clock >= rateLimit[1].resetTime]_vars

(***************************************************************************)
(* Properties of sessions (checked under SpecSession).                     *)
(***************************************************************************)
\* C16: multi-user isolation: whenever a user is authenticated, every
\* transaction in the store's transactions list has the userId of that user,
\* after any interleaving of login, logout, dashboard loading and in-flight
\* send-money submissions.
C16_UserIsolation ==
    (auth.isAuthenticated /\ auth.user # null)
        => \A i \in 1..Len(transactions) : transactions[i].userId = auth.user.id

\* the session is cleared: no user, not authenticated, no tokens in the store
\* or in the cookies, no transactions in the store
LoggedOut ==
    /\ auth.user = null
    /\ ~auth.isAuthenticated
    /\ auth.sessionToken = undefined
    /\ auth.refreshToken = undefined
    /\ ~authToken
    /\ ~refreshCookie
    /\ transactions = <<>>

\* the step is the store's logout, called by handleLogout
LogoutRuns ==
    /\ oneSecondTimers # <<>>
    /\ Head(oneSecondTimers).kind = "logout"
    /\ Len(oneSecondTimers') < Len(oneSecondTimers)

\* the step is a login that succeeds
LoginSucceeds ==
    /\ oneSecondTimers # <<>>
    /\ Head(oneSecondTimers).kind = "login"
    /\ auth'.isAuthenticated

\* C17: logging out clears the session: after logout runs the user is null,
\* isAuthenticated is false, the tokens are absent from the store and the
\* cookies and the store holds no transactions; and all of this stays so until
\* the next successful login, whatever started before the logout completes.
C17_LogoutClearsSession ==
    /\ [][LogoutRuns => LoggedOut']_vars
    /\ [][(LoggedOut /\ ~LoginSucceeds) => LoggedOut']_vars

(***************************************************************************)
(* Properties of the session restore (checked under SpecRestore).          *)
(***************************************************************************)
\* the step is the mount effect of Index
AppLoads == ~appLoaded /\ appLoaded'

\* C18: persistent sessions: when the app loads it becomes authenticated if
\* and only if the auth-token cookie and a stored current user are both
\* present; the restored user is the user of the most recent successful
\* login; and after a logout a reload leaves the app unauthenticated.
C18_SessionRestored ==
    /\ [][AppLoads => (auth'.isAuthenticated <=> (authToken /\ currentUser # null))]_vars
    /\ [][(AppLoads /\ auth'.isAuthenticated) => auth'.user = lastLogin]_vars
    /\ [][(AppLoads /\ lastLogin = null) => ~auth'.isAuthenticated]_vars

(***************************************************************************)
(* Properties of the transaction status (checked under SpecLive).          *)
(***************************************************************************)
\* the ids createTransaction hands out
CreatedIds == {"id_" \o ToString(k) : k \in 1..MaxTx}

\* the store's transactions hold the transaction id
InStore(id) == \E i \in 1..Len(transactions) : transactions[i].id = id

\* the store's transactions hold the transaction id with the status
InStoreWith(id, status) ==
    \E i \in 1..Len(transactions) :
        transactions[i].id = id /\ transactions[i].status = status

\* C19: real-time status updates: after a send-money submission succeeds,
\* the transaction held in the store's transactions list eventually reaches
\* the status completed while the page stays open.
C19_StatusReachesCompleted ==
    \A id \in CreatedIds : InStore(id) ~> InStoreWith(id, "completed")

(***************************************************************************)
(* Properties of the login and register forms (checked under SpecForms).   *)
(***************************************************************************)
\* the error message of the call that the oldest 1 s timeout completes; ""
\* when the call succeeds
ReturnedError ==
    LET timer == Head(oneSecondTimers)
    IN  IF timer.kind = "login"
        THEN LoginResult(StoredUsers, timer.email, timer.password).message
        ELSE IF timer.kind = "register"
        THEN RegisterResult(StoredUsers, timer.email, timer.password).message
        ELSE ""

\* the step is the return of apiService.login or apiService.register with a
\* failure
FailureReturns ==
    /\ oneSecondTimers # <<>>
    /\ Len(oneSecondTimers') < Len(oneSecondTimers)
    /\ ReturnedError # ""

\* C20: when apiService.login or apiService.register returns a failure, the
\* form displayed once loading ends is the form that submitted, and it shows
\* the returned error message in errors.general.
C20_FailureShown ==
    [][FailureReturns => (/\ authPage'.mounted
                          /\ authPage'.mode = Head(oneSecondTimers).kind
                          /\ authPage'.general = ReturnedError)]_vars

(***************************************************************************)
(* Properties of the records the send-money form creates.                  *)
(***************************************************************************)
\* C21: every transaction record created from the send-money form is
\* consistent: its fee is calculateFee(sourceAmount, destinationCountry), its
\* exchangeRate is the table's rate of its currency, and its finalAmount is
\* calculateFinalAmount(sourceAmount, exchangeRate, fee), whatever the order
\* of edits, calculation timeouts and the submit.
C21_RecordConsistent ==
    \A i \in 1..Len(StoredTransactions) :
        LET t == StoredTransactions[i]
        IN  t.id \in CreatedIds =>
              /\ t.fee = calculateFee(t.sourceAmount, t.destinationCountry)
              /\ exchangeRates # null => t.exchangeRate = exchangeRates[t.currency]
              /\ t.finalAmount = calculateFinalAmount(t.sourceAmount, t.exchangeRate, t.fee)

\* the sum of the source amounts of the stored transactions of the user that
\* were created on the calendar day (in the calendar month) of createdAt
StoredOnDay(userId, createdAt) ==
    SumSourceAmount(SelectSeq(StoredTransactions,
        LAMBDA t : t.userId = userId /\ SameCalendarDay(t.createdAt, createdAt)))

StoredInMonth(userId, createdAt) ==
    SumSourceAmount(SelectSeq(StoredTransactions,
        LAMBDA t : t.userId = userId /\ SameCalendarMonth(t.createdAt, createdAt)))

StatusStep(before, after) ==
    \/ after = before
    \/ before = "pending" /\ after = "processing"
    \/ before = "processing" /\ after = "completed"

\* C23: a transaction's status only moves forward along pending ->
\* processing -> completed: a record is created as pending, never returns to
\* an earlier status, completed, failed and cancelled are never left, and
\* completedAt is set exactly when the status becomes completed; for the
\* records in local storage and for the mock transactions of the history view.
C23_StatusMovesForward ==
    [][/\ \A j \in 1..Len(StoredTransactions') :
            LET after == StoredTransactions'[j]
                old   == {i \in 1..Len(StoredTransactions) :
                             StoredTransactions[i].id = after.id}
            IN  /\ old = {} => after.status = "pending" /\ after.completedAt = <<>>
                /\ \A i \in old :
                      LET before == StoredTransactions[i]
                      IN  /\ StatusStep(before.status, after.status)
                          /\ (after.completedAt # before.completedAt) <=>
                                (before.status # "completed" /\ after.status = "completed")
                          /\ after.completedAt # before.completedAt =>
                                after.completedAt = <<today'>>
       /\ (mockTransactions # <<>> /\ mockTransactions' # <<>>) =>
            \A i \in 1..Len(mockTransactions) :
                /\ mockTransactions'[i].id = mockTransactions[i].id
                /\ StatusStep(mockTransactions[i].status, mockTransactions'[i].status)]_vars

\* the record of a transfer made through the form has gone from pending to
\* completed in local storage, and the history view shows a mock transaction
\* as completed
C23_Witness ==
    /\ \E i \in 1..Len(StoredTransactions) :
          /\ StoredTransactions[i].id \in CreatedIds
          /\ StoredTransactions[i].status = "completed"
          /\ StoredTransactions[i].completedAt # <<>>
    /\ mockTransactions # <<>>
    /\ mockTransactions[1].status = "completed"

(***************************************************************************)
(* Properties of the stored record of a transfer (checked under SpecLive). *)
(***************************************************************************)
\* local storage holds the transaction id
Stored(id) == \E i \in 1..Len(StoredTransactions) : StoredTransactions[i].id = id

\* local storage holds the transaction id as completed, with completedAt
StoredCompleted(id) ==
    \E i \in 1..Len(StoredTransactions) :
        /\ StoredTransactions[i].id = id
        /\ StoredTransactions[i].status = "completed"
        /\ StoredTransactions[i].completedAt # <<>>

\* C24: every transaction createTransaction creates is put first in the
\* local-storage list with status pending; while the page stays open its
\* record eventually has status completed with completedAt set; and that
\* progression changes no other record.
C24_StoredRecordCompletes ==
    /\ [][/\ Len(StoredTransactions') > Len(StoredTransactions) =>
               /\ Tail(StoredTransactions') = StoredTransactions
               /\ Head(StoredTransactions').status = "pending"
               /\ ~Stored(Head(StoredTransactions').id)
          /\ Len(StoredTransactions') = Len(StoredTransactions) =>
               \A i \in 1..Len(StoredTransactions) :
                   \/ StoredTransactions'[i] = StoredTransactions[i]
                   \/ /\ StoredTransactions[i].id \in CreatedIds
                      /\ StoredTransactions'[i].id = StoredTransactions[i].id
                      /\ \A j \in 1..Len(StoredTransactions) :
                            j # i => StoredTransactions'[j] = StoredTransactions[j]]_vars
    /\ \A id \in CreatedIds : Stored(id) ~> StoredCompleted(id)

\* the record of the transfer is first in the list and completed, and the
\* record that was stored before it is as it was
C24_Witness ==
    /\ Len(StoredTransactions) = 2
    /\ StoredTransactions[1].id = "id_1"
    /\ StoredTransactions[1].status = "completed"
    /\ StoredTransactions[1].completedAt = <<today>>
    /\ StoredTransactions[2] = MockTransaction(0, "completed", <<StartDate>>)

(***************************************************************************)
(* Properties of register (checked under SpecRegister).                    *)
(***************************************************************************)
\* a step in which a register call returns
RegisterCallReturned ==
    /\ oneSecondTimers # <<>>
    /\ Head(oneSecondTimers).kind = "register call"
    /\ oneSecondTimers' = Tail(oneSecondTimers)

\* C25: register rejects an address that the stored user list holds with the
\* error code USER_EXISTS and leaves the list unchanged; otherwise it appends
\* exactly one user, with tier basic, isVerified false and mfaEnabled false;
\* so the stored list never holds two users with the same address, also when
\* calls overlap.
C25_RegisterUnique ==
    /\ [](\A i, j \in 1..Len(StoredUsers) :
             StoredUsers[i].email = StoredUsers[j].email => i = j)
    /\ [][RegisterCallReturned =>
            LET call == Head(oneSecondTimers)
            IN  IF \E i \in 1..Len(StoredUsers) : StoredUsers[i].email = call.email
                THEN /\ ~registerResponse'[1].success
                     /\ registerResponse'[1].code = "USER_EXISTS"
                     /\ lsUsers' = lsUsers
                ELSE /\ registerResponse'[1].success
                     /\ Len(StoredUsers') = Len(StoredUsers) + 1
                     /\ SubSeq(StoredUsers', 1, Len(StoredUsers)) = StoredUsers
                     /\ LET new == StoredUsers'[Len(StoredUsers')]
                        IN  /\ new.email = call.email
                            /\ new.user.tier = "basic"
                            /\ ~new.isVerified
                            /\ ~new.mfaEnabled]_vars

\* of two calls with one new address that overlapped, the first has stored
\* the account and the second was rejected
C25_Witness ==
    /\ Len(StoredUsers) = 2
    /\ StoredUsers[2].email = "jane@example.com"
    /\ StoredUsers[2].password = "Secret1!"
    /\ oneSecondTimers = <<>>
    /\ registerResponse = <<[success |-> FALSE, code |-> "USER_EXISTS",
                             message |-> "An account with this email already exists"]>>

(***************************************************************************)
(* Registration followed by login (checked under SpecForms).               *)
(***************************************************************************)
\* a step in which the login call of the form returns (the page stays loaded)
LoginCallReturned ==
    /\ oneSecondTimers # <<>>
    /\ Head(oneSecondTimers).kind = "login"
    /\ Len(oneSecondTimers') = Len(oneSecondTimers) - 1
    /\ appLoaded'

\* the registration form has stored an account for what was typed as address
\* and password
RegisteredWith(email, password) ==
    /\ <<email, password>> \in RegisterInputs
    /\ \E i \in 1..Len(StoredUsers) :
          /\ StoredUsers[i].email = toLowerCase(email)
          /\ StoredUsers[i].password = password
          /\ StoredUsers[i].user = RegisteredUser

\* C26: a user who has registered through the registration form with an
\* address and a password can afterwards log in through the login form by
\* entering the same address and password, also when the address holds
\* upper-case letters.
C26_RegisterThenLogin ==
    [][(LoginCallReturned /\ RegisteredWith(Head(oneSecondTimers).email,
                                            Head(oneSecondTimers).password)) =>
          /\ auth'.isAuthenticated
          /\ auth'.user = RegisteredUser]_vars

(***************************************************************************)
(* What parseAmount accepts (checked under SpecCalc).                      *)
(***************************************************************************)
\* s is one decimal numeral: digits with at most one '.', at least one
\* digit, and at most two digits after the '.'
IsOneNumeral(s) ==
    LET dots == SelectSeq(s, LAMBDA c : c = ".")
        k    == IndexOf(s, ".")
    IN  /\ \A i \in 1..Len(s) : s[i] \in DigitChars \cup {"."}
        /\ Len(dots) <= 1
        /\ Len(s) > Len(dots)
        /\ k # 0 => Len(s) - k <= 2

\* C27: whenever parseAmount reports isValid = true, the cleaned input is a
\* single well-formed decimal numeral with at most 2 fractional digits and
\* the amount returned is the value of the whole cleaned string; an input
\* whose cleaned form has more than one '.', such as "1.2.345", is not
\* accepted.
C27_AcceptsOneNumeral ==
    (called /\ args.op = "parseAmount" /\ ret.isValid) =>
        LET cleaned == Cleaned(args.input)
        IN  /\ IsOneNumeral(cleaned)
            /\ ret.amount = NumeralValue(cleaned)

====
